---- MODULE Spec2Model ----
(***************************************************************************)
(* Model of the RfPlayer serial protocol engine of the myrfplayer          *)
(* integration: rfplayerlib/protocol.py (frame decoder and packet          *)
(* classifier), rfplayerlib/device.py (device event adapter) and           *)
(* rfplayerlib/__init__.py (client session).                               *)
(*                                                                         *)
(* Text is a sequence of Unicode code points, bytes are a sequence of      *)
(* numbers 0..255.  Python values carry their runtime type in the field t. *)
(***************************************************************************)
EXTENDS Integers, Sequences, FiniteSets, TLC

----------------------------------------------------------------------------
(* Python values *)

PyStr(s) == [t |-> "str", v |-> s]
PyInt(n) == [t |-> "int", v |-> n]
PyDict(f) == [t |-> "dict", v |-> f]
PyNone == [t |-> "NoneType", v |-> 0]

\* isinstance(value, cls) for the classes of protocol.py: SimplePacketType
\* derives from str and JsonPacketType from dict, so an instance of the base
\* class is no instance of the derived class.
isinstance(value, cls) == value.t = cls

\* typing.cast(cls, value) returns value unchanged at run time.
cast(cls, value) == value

\* the value of F at the value of e: e is evaluated once, as the right-hand side
\* of a Python assignment is
Eval(e, F(_)) == CHOOSE r \in {F(x) : x \in {e}} : TRUE

SetMin(S) == CHOOSE x \in S : \A y \in S : x <= y
SetMax(S) == CHOOSE x \in S : \A y \in S : x >= y

----------------------------------------------------------------------------
(* bytes.decode(): UTF-8 sequences of one and two bytes.  The bytes the     *)
(* model feeds are below 0x80, continuation bytes, two-byte leads, or 0xFF; *)
(* on these the operators do what CPython does.                             *)

IsCont(b) == b >= 128 /\ b <= 191
IsLead2(b) == b >= 194 /\ b <= 223

\* length of the well-formed sequence starting at data[i], 0 when ill-formed
Utf8Len(data, i) ==
    IF data[i] < 128 THEN 1
    ELSE IF IsLead2(data[i]) /\ i + 1 <= Len(data) /\ IsCont(data[i + 1]) THEN 2
    ELSE 0

Utf8Char(data, i) ==
    IF data[i] < 128 THEN data[i]
    ELSE (data[i] - 192) * 64 + (data[i + 1] - 128)

RECURSIVE DecodeFrom(_, _, _, _)
\* text is what was decoded before data[i].  replace = TRUE is
\* decode(errors="replace"): every ill-formed byte becomes U+FFFD and decoding
\* resumes at the next byte; otherwise an ill-formed byte ends the decoding.
DecodeFrom(data, i, replace, text) ==
    IF i > Len(data) THEN [ok |-> TRUE, text |-> text]
    ELSE IF Utf8Len(data, i) > 0
    THEN DecodeFrom(data, i + Utf8Len(data, i), replace, Append(text, Utf8Char(data, i)))
    ELSE IF replace THEN DecodeFrom(data, i + 1, replace, Append(text, 65533))
    ELSE [ok |-> FALSE, text |-> <<>>]

\* data.decode(): ok = FALSE stands for UnicodeDecodeError
bytes_decode(data) == DecodeFrom(data, 1, FALSE, <<>>)

\* data.decode(errors="replace")
bytes_decode_replace(data) == DecodeFrom(data, 1, TRUE, <<>>).text

\* bytes(text, "utf-8") for text the protocol writes (code points below 0x800)
RECURSIVE bytes_encode(_)
bytes_encode(text) ==
    IF text = <<>> THEN <<>>
    ELSE (IF Head(text) < 128 THEN <<Head(text)>>
          ELSE <<192 + (Head(text) \div 64), 128 + (Head(text) % 64)>>)
         \o bytes_encode(Tail(text))

----------------------------------------------------------------------------
(* str helpers *)

\* line.strip(chars)
str_strip(line, chars) ==
    LET keep == {i \in 1..Len(line) : line[i] \notin chars} IN
    IF keep = {} THEN <<>> ELSE SubSeq(line, SetMin(keep), SetMax(keep))

\* "\n" in buffer
HasNewline(buffer) == \E i \in 1..Len(buffer) : buffer[i] = 10

\* buffer.split("\n", 1), for a buffer that holds a newline
SplitNewline(buffer) ==
    LET i == SetMin({j \in 1..Len(buffer) : buffer[j] = 10}) IN
    [line |-> SubSeq(buffer, 1, i - 1), rest |-> SubSeq(buffer, i + 1, Len(buffer))]

----------------------------------------------------------------------------
(* json.loads(): objects, strings without escapes and integers.  The text   *)
(* the model feeds holds none of [ ] \ . e E n f t, so no array, escape,    *)
(* fraction, exponent or literal can occur and the parser is exact on it.   *)

JsonWs == {32, 9, 10, 13}
IsDigit(c) == c >= 48 /\ c <= 57

JsonFail == [ok |-> FALSE, val |-> PyNone, pos |-> 0]

SkipWs(s, i) == SetMin({j \in i..(Len(s) + 1) : j = Len(s) + 1 \/ s[j] \notin JsonWs})

\* later pairs win over earlier ones with the same key, as in a Python dict
DictOf(pairs) ==
    [k \in {pairs[i][1] : i \in DOMAIN pairs} |->
        pairs[SetMax({i \in DOMAIN pairs : pairs[i][1] = k})][2]]

\* s[i] is the opening quote
ParseString(s, i) ==
    LET ends == {j \in (i + 1)..Len(s) : s[j] = 34} IN
    IF ends = {} THEN JsonFail
    ELSE LET j == SetMin(ends) IN
         IF \E k \in (i + 1)..(j - 1) : s[k] < 32 \/ s[k] = 92 THEN JsonFail
         ELSE [ok |-> TRUE, val |-> PyStr(SubSeq(s, i + 1, j - 1)), pos |-> j + 1]

RECURSIVE Decimal(_)
Decimal(digits) ==
    IF digits = <<>> THEN 0
    ELSE 10 * Decimal(SubSeq(digits, 1, Len(digits) - 1)) + (digits[Len(digits)] - 48)

\* s[i] is a minus sign or a digit
ParseNumber(s, i) ==
    LET neg == s[i] = 45
        start == IF neg THEN i + 1 ELSE i
    IN  IF start > Len(s) \/ ~IsDigit(s[start]) THEN JsonFail
        ELSE LET stop == IF s[start] = 48 THEN start
                         ELSE SetMin({j \in start..Len(s) :
                                         j = Len(s) \/ ~IsDigit(s[j + 1])})
                 n == Decimal(SubSeq(s, start, stop))
             IN  [ok |-> TRUE, val |-> PyInt(IF neg THEN 0 - n ELSE n), pos |-> stop + 1]

RECURSIVE ParseValue(_, _), ParseMembers(_, _, _)

ParseValue(s, i) ==
    IF i > Len(s) THEN JsonFail
    ELSE IF s[i] = 34 THEN ParseString(s, i)
    ELSE IF s[i] = 123 THEN
        LET j == SkipWs(s, i + 1) IN
        IF j > Len(s) THEN JsonFail
        ELSE IF s[j] = 125 THEN [ok |-> TRUE, val |-> PyDict(<<>>), pos |-> j + 1]
        ELSE ParseMembers(s, j, <<>>)
    ELSE IF s[i] = 45 \/ IsDigit(s[i]) THEN ParseNumber(s, i)
    ELSE JsonFail

\* s[j] is where the next key must start; acc holds the pairs parsed so far
ParseMembers(s, j, acc) ==
    IF j > Len(s) \/ s[j] # 34 THEN JsonFail
    ELSE Eval(ParseString(s, j), LAMBDA key :
         IF ~key.ok THEN JsonFail
         ELSE Eval(SkipWs(s, key.pos), LAMBDA c :
              IF c > Len(s) \/ s[c] # 58 THEN JsonFail
              ELSE Eval(ParseValue(s, SkipWs(s, c + 1)), LAMBDA val :
                   IF ~val.ok THEN JsonFail
                   ELSE Eval(SkipWs(s, val.pos), LAMBDA m :
                        IF m > Len(s) THEN JsonFail
                        ELSE IF s[m] = 125
                        THEN [ok |-> TRUE,
                              val |-> PyDict(DictOf(Append(acc, <<key.val.v, val.val>>))),
                              pos |-> m + 1]
                        ELSE IF s[m] = 44
                        THEN ParseMembers(s, SkipWs(s, m + 1),
                                          Append(acc, <<key.val.v, val.val>>))
                        ELSE JsonFail))))

\* json.loads(body): ok = FALSE stands for json.JSONDecodeError
json_loads(body) ==
    Eval(ParseValue(body, SkipWs(body, 1)), LAMBDA r :
        IF r.ok /\ SkipWs(body, r.pos) = Len(body) + 1 THEN r ELSE JsonFail)

----------------------------------------------------------------------------
(* rfplayerlib/device.py *)

K_frame == <<102, 114, 97, 109, 101>>   \* "frame"
K_header == <<104, 101, 97, 100, 101, 114>>   \* "header"
K_infos == <<105, 110, 102, 111, 115>>   \* "infos"
K_protocolMeaning == <<112, 114, 111, 116, 111, 99, 111, 108, 77, 101, 97, 110, 105, 110, 103>>
K_id == <<105, 100>>   \* "id"
K_id_channel == <<105, 100, 95, 99, 104, 97, 110, 110, 101, 108>>   \* "id_channel"
K_adr_channel == <<97, 100, 114, 95, 99, 104, 97, 110, 110, 101, 108>>   \* "adr_channel"
K_id_PHYMeaning == <<105, 100, 95, 80, 72, 89, 77, 101, 97, 110, 105, 110, 103>>
K_subTypeMeaning == <<115, 117, 98, 84, 121, 112, 101, 77, 101, 97, 110, 105, 110, 103>>
UNKNOWN_INFO == <<117, 110, 107, 110, 111, 119, 110>>   \* "unknown"
GATEWAY_PROTOCOL == <<103, 97, 116, 101, 119, 97, 121>>   \* "gateway"
GATEWAY_DEVICE == <<103, 97, 116, 101, 119, 97, 121>>   \* "gateway"

Ok(val) == [exc |-> "none", val |-> val]
Raise(exc) == [exc |-> exc, val |-> PyNone]

IsSubstr(k, s) == \E i \in 1..(Len(s) - Len(k) + 1) : SubSeq(s, i, i + Len(k) - 1) = k

\* JsonPacketType and JsonInfo are subclasses of dict, SimplePacketType and
\* SimpleInfo of str
IsDict(obj) == obj.t \in {"dict", "JsonPacketType", "JsonInfo"}
IsStr(obj) == obj.t \in {"str", "SimplePacketType", "SimpleInfo"}

\* key in obj
py_contains(obj, key) ==
    IF IsDict(obj) THEN Ok(key \in DOMAIN obj.v)
    ELSE IF IsStr(obj) THEN Ok(IsSubstr(key, obj.v))
    ELSE Raise("TypeError")

\* obj[key] for a str key
py_getitem(obj, key) ==
    IF ~IsDict(obj) THEN Raise("TypeError")
    ELSE IF key \notin DOMAIN obj.v THEN Raise("KeyError")
    ELSE Ok(obj.v[key])

str_lower(s) == [i \in DOMAIN s |-> IF s[i] >= 65 /\ s[i] <= 90 THEN s[i] + 32 ELSE s[i]]

RfDeviceId(protocol, address, group_id, model) ==
    [protocol |-> protocol, address |-> address, group_id |-> group_id, model |-> model]

RECURSIVE Digits(_)
\* the decimal digits of a natural number
Digits(n) == IF n < 10 THEN <<48 + n>> ELSE Digits(n \div 10) \o <<48 + (n % 10)>>

\* f"{value}" of a str, of a natural number and of None
py_format(value) ==
    IF IsStr(value) THEN value.v
    ELSE IF value.t = "int" THEN Digits(value.v)
    ELSE <<78, 111, 110, 101>>   \* "None"

\* device_id that tests `if self.group_id`
device_id_truthy(device) ==
    IF device.group_id # PyNone /\ device.group_id.v # <<>>
    THEN py_format(device.protocol) \o <<45>> \o py_format(device.group_id)
             \o <<58>> \o py_format(device.address)
    ELSE py_format(device.protocol) \o <<45>> \o py_format(device.address)

\* RfDeviceId.device_id
device_id(device) ==
    IF device.group_id # PyNone
    THEN py_format(device.protocol) \o <<45>> \o py_format(device.group_id)
             \o <<58>> \o py_format(device.address)
    ELSE py_format(device.protocol) \o <<45>> \o py_format(device.address)

RfDeviceEvent(device, data) == [device |-> device, data |-> data]

\* _convert_raw_model that compares without lower()
_convert_raw_model_exact(raw_model) ==
    IF ~IsStr(raw_model) THEN Raise("AttributeError")
    ELSE IF raw_model.v \in {<<111, 110>>, <<111, 102, 102>>}
         THEN Ok(PyStr(<<115, 119, 105, 116, 99, 104>>))
    ELSE Ok(raw_model)

_convert_raw_model(raw_model) ==
    IF ~IsStr(raw_model) THEN Raise("AttributeError")
    ELSE IF str_lower(raw_model.v) \in {<<111, 110>>, <<111, 102, 102>>}
         THEN Ok(PyStr(<<115, 119, 105, 116, 99, 104>>))
    ELSE Ok(raw_model)

RECURSIVE FirstPresent(_, _)
\* for key in keys: if key in infos: the first such key, <<>> when there is none
FirstPresent(infos, keys) ==
    IF keys = <<>> THEN Ok(<<>>)
    ELSE LET c == py_contains(infos, Head(keys)) IN
         IF c.exc # "none" THEN c
         ELSE IF c.val THEN Ok(<<Head(keys)>>)
         ELSE FirstPresent(infos, Tail(keys))

_get_model(infos) ==
    Eval(FirstPresent(infos, <<K_id_PHYMeaning, K_subTypeMeaning>>), LAMBDA k :
        IF k.exc # "none" THEN Raise(k.exc)
        ELSE IF k.val = <<>> THEN Ok(PyStr(UNKNOWN_INFO))
        ELSE Eval(py_getitem(infos, k.val[1]), LAMBDA item :
                IF item.exc # "none" THEN item ELSE _convert_raw_model(item.val)))

\* _get_address that probes id_channel before id
_get_address_channel_first(infos) ==
    Eval(FirstPresent(infos, <<K_id_channel, K_id, K_adr_channel>>), LAMBDA k :
        IF k.exc # "none" THEN Raise(k.exc)
        ELSE IF k.val = <<>> THEN Ok(PyStr(UNKNOWN_INFO))
        ELSE py_getitem(infos, k.val[1]))

_get_address(infos) ==
    Eval(FirstPresent(infos, <<K_id, K_id_channel, K_adr_channel>>), LAMBDA k :
        IF k.exc # "none" THEN Raise(k.exc)
        ELSE IF k.val = <<>> THEN Ok(PyStr(UNKNOWN_INFO))
        ELSE py_getitem(infos, k.val[1]))

_parse_json_device(json_packet) ==
    Eval(py_getitem(json_packet, K_frame), LAMBDA frame :
    IF frame.exc # "none" THEN frame
    ELSE Eval(py_getitem(frame.val, K_header), LAMBDA header :
    IF header.exc # "none" THEN header
    ELSE Eval(py_getitem(frame.val, K_infos), LAMBDA infos :
    IF infos.exc # "none" THEN infos
    ELSE Eval(py_getitem(header.val, K_protocolMeaning), LAMBDA protocol :
    IF protocol.exc # "none" THEN protocol
    ELSE Eval(_get_address(infos.val), LAMBDA address :
    IF address.exc # "none" THEN address
    ELSE Eval(_get_model(infos.val), LAMBDA model :
    IF model.exc # "none" THEN model
    ELSE Ok(RfDeviceId(protocol.val, address.val, PyNone, model.val))))))))

_simple_packet_to_device_event(id, raw_packet) ==
    RfDeviceEvent(RfDeviceId(PyStr(GATEWAY_PROTOCOL), PyStr(id), PyNone, PyStr(GATEWAY_DEVICE)),
                  [t |-> "SimplePacketType", v |-> raw_packet.v])

_json_packet_to_device_event(json_packet) ==
    Eval(_parse_json_device(json_packet), LAMBDA device :
        IF device.exc # "none" THEN device ELSE Ok(RfDeviceEvent(device.val, json_packet)))

\* RfDeviceEventAdapter.raw_event_callback: dev is the sequence of events handed
\* to device_event_callback, exc the exception that escapes
raw_event_callback(id, raw_packet) ==
    IF isinstance(raw_packet, "SimplePacketType")
    THEN [dev |-> <<_simple_packet_to_device_event(id, raw_packet)>>, exc |-> "none"]
    ELSE IF isinstance(raw_packet, "JsonPacketType")
    THEN Eval(_json_packet_to_device_event(raw_packet), LAMBDA e :
             IF e.exc # "none" THEN [dev |-> <<>>, exc |-> e.exc]
             ELSE [dev |-> <<e.val>>, exc |-> "none"])
    ELSE [dev |-> <<>>, exc |-> "none"]

----------------------------------------------------------------------------
(* rfplayerlib/protocol.py *)

END_OF_LINE == <<10, 13>>
PACKET_HEADER_LEN == 5
MINIMUM_SCRIPT == << <<70, 79, 82, 77, 65, 84, 32, 74, 83, 79, 78>> >>   \* ["FORMAT JSON"]

\* _valid_packet with >= written for >
_valid_packet_ge(line) == Len(line) >= PACKET_HEADER_LEN

_valid_packet(line) == Len(line) > PACKET_HEADER_LEN

\* the event_callback RfPlayerClient.connect gives the protocol
event_callback(id, raw_event) == raw_event_callback(id, raw_event)

\* one call of handle_raw_packet: raw is the sequence of values handed to
\* event_callback, dev what the adapter hands on, exc the exception that escapes
Emit(id, raw_event) ==
    Eval(event_callback(id, raw_event), LAMBDA r :
        [raw |-> <<raw_event>>, dev |-> r.dev, exc |-> r.exc])

NoEmit(exc) == [raw |-> <<>>, dev |-> <<>>, exc |-> exc]

\* the event_callback call of the ZIA33 branch of handle_raw_packet
EmitJson(id, body) ==
    Eval(json_loads(body), LAMBDA j :
        IF ~j.ok THEN NoEmit("JSONDecodeError")
        ELSE Emit(id, cast("JsonPacketType", j.val)))

\* handle_raw_packet with the body taken from index 4 on (raw_packet[4:])
handle_raw_packet_body4(id, raw_packet) ==
    LET header == SubSeq(raw_packet, 1, 5)
        body == SubSeq(raw_packet, 5, Len(raw_packet))
    IN  IF header = <<90, 73, 65, 45, 45>>
        THEN Emit(id, cast("SimplePacketType", PyStr(body)))
        ELSE IF header = <<90, 73, 65, 51, 51>>
        THEN EmitJson(id, body)
        ELSE NoEmit("none")

\* handle_raw_packet with every header but ZIA33 handled as a simple packet
handle_raw_packet_default_simple(id, raw_packet) ==
    LET header == SubSeq(raw_packet, 1, 5)
        body == SubSeq(raw_packet, 6, Len(raw_packet))
    IN  IF header = <<90, 73, 65, 51, 51>>
        THEN EmitJson(id, body)
        ELSE Emit(id, cast("SimplePacketType", PyStr(body)))

handle_raw_packet(id, raw_packet) ==
    LET header == SubSeq(raw_packet, 1, IF Len(raw_packet) < 5 THEN Len(raw_packet) ELSE 5)
        body == SubSeq(raw_packet, 6, Len(raw_packet))
    IN  IF header = <<90, 73, 65, 45, 45>>                       \* "ZIA--"
        THEN Emit(id, cast("SimplePacketType", PyStr(body)))
        ELSE IF header = <<90, 73, 65, 51, 51>>                  \* "ZIA33"
        THEN EmitJson(id, body)
        ELSE IF header \in {<<90, 73, 65, 48, 48>>, <<90, 73, 65, 49, 49>>,
                            <<90, 73, 65, 50, 50>>, <<90, 73, 65, 52, 52>>,
                            <<90, 73, 65, 54, 54>>}
        THEN NoEmit("none")
        ELSE NoEmit("none")

\* what handling one line did: the text up to the newline (rawline), the
\* stripped line, the values handed to event_callback (raw), the events the
\* adapter handed on (dev) and the exception that escaped (exc)
LineEntry(rawline, line, h) ==
    [rawline |-> rawline, line |-> line, raw |-> h.raw, dev |-> h.dev, exc |-> h.exc]

RECURSIVE handle_lines(_, _)
\* log has one entry per line taken from the buffer
handle_lines(id, buffer) ==
    IF ~HasNewline(buffer) THEN [buffer |-> buffer, log |-> <<>>]
    ELSE Eval(SplitNewline(buffer), LAMBDA sp :
         Eval(str_strip(sp.line, {0, 32, 9, 13}), LAMBDA line :
         Eval(IF _valid_packet(line) THEN handle_raw_packet(id, line) ELSE NoEmit("none"),
              LAMBDA h :
                 IF h.exc # "none"
                 THEN [buffer |-> sp.rest, log |-> <<LineEntry(sp.line, line, h)>>]
                 ELSE Eval(handle_lines(id, sp.rest), LAMBDA rest :
                         [buffer |-> rest.buffer,
                          log |-> <<LineEntry(sp.line, line, h)>> \o rest.log]))))

\* data_received that goes on with the text decoded with errors="replace"
data_received_replace(id, buffer, data) ==
    Eval(handle_lines(id, Eval(buffer \o bytes_decode_replace(data), LAMBDA b : b)),
         LAMBDA r : [buffer |-> r.buffer, log |-> r.log, decoded |-> bytes_decode(data).ok])

\* one call of data_received on a protocol whose buffer is `buffer`
data_received(id, buffer, data) ==
    Eval(bytes_decode(data), LAMBDA d :
        IF ~d.ok THEN [buffer |-> buffer, log |-> <<>>, decoded |-> FALSE]
        ELSE Eval(handle_lines(id, buffer \o d.text), LAMBDA r :
                [buffer |-> r.buffer, log |-> r.log, decoded |-> TRUE]))

\* send_raw_packet that ends the frame with \r\n
send_raw_packet_crlf(raw_packet) == bytes_encode(<<90, 73, 65, 43, 43>> \o raw_packet \o <<13, 10>>)

\* bytes(f"ZIA++{raw_packet}{END_OF_LINE}", "utf-8")
send_raw_packet(raw_packet) == bytes_encode(<<90, 73, 65, 43, 43>> \o raw_packet \o END_OF_LINE)

----------------------------------------------------------------------------
(* rfplayerlib/__init__.py: RfPlayerClient, and the state of one client *)

MaxConnects == 1     \* serial connections opened by one client
MaxChunks == 1       \* data_received calls of a session
MaxSends == 1        \* commands written through send_raw_command, per transport
MaxLines == 2        \* lines of a byte stream on the serial line

PORT == <<47, 100, 101, 118, 47, 116, 116, 121, 85, 83, 66, 48>>   \* "/dev/ttyUSB0"

VARIABLES
    receiver_protocols,  \* RfPlayerClient.receiver_protocols: None or a list of str
    client_protocol,     \* RfPlayerClient._protocol: 0 is None, else the connection
    conns,               \* per connection: the RfplayerProtocol and its transport
    disconnects,         \* calls of RfPlayerClient.disconnect_callback, in order
    raised,              \* the exception that escaped the last operation or callback
    nchunks,             \* data_received calls so far
    wire,                \* bytes on the serial line not yet read
    pending,             \* connect() calls waiting in create_serial_connection
    device_events,       \* calls of the device_event_callback of an adapter used alone
    config,              \* Gateway.config: the entry data the gateway was built with
    device_ids,          \* Gateway.device_ids
    entry_devices,       \* Gateway.entry.data[CONF_DEVICES]
    handled,             \* calls of Gateway._async_handle_receive: the event as it
                         \* was built, and the event sent to the dispatcher
    registry,            \* ProfileRegistry._registry
    lookups,             \* calls of the ProfileRegistry methods, with their results
    packet,              \* the event data whose capabilities are extracted, or None
    entry_redirect,      \* entry.data[CONF_REDIRECT_ADDRESS] of the config entry
    hass_state,          \* hass.state: "running" or "stopping"
    created,             \* _connect_gateway tasks created so far
    attempts,            \* create_serial_connection calls so far
    timers,              \* reconnect jobs scheduled with async_call_later, not yet run
    signals,             \* the SIGNAL_RFPLAYER_AVAILABILITY values dispatched, in order
    failures,            \* connection attempts that failed so far
    platform_device_ids, \* device_ids of async_setup_platform_entry, for one platform
    entities,            \* per device id, the calls of the platform's entity builder
    is_on,               \* _attr_is_on of a switch and of a binary sensor entity
    applied              \* calls of _apply_event of the entities, with their results

clientVars ==
    <<receiver_protocols, client_protocol, conns, disconnects, nchunks, wire, pending>>
adapterVars == <<device_events>>
platformVars == <<platform_device_ids, entities, is_on, applied>>
gatewayVars == <<config, device_ids, entry_devices, entry_redirect, handled>>
profileVars == <<registry, lookups, packet>>
supervisorVars == <<hass_state, created, attempts, timers, signals, failures>>

\* the state outside RfPlayerClient and its protocols
nonClientVars == <<adapterVars, platformVars, gatewayVars, profileVars, supervisorVars>>

vars ==
    <<receiver_protocols, client_protocol, conns, disconnects, raised, nchunks, wire,
      pending, nonClientVars>>

PyList(items) == [t |-> "list", v |-> items]

\* bool(value)
py_bool(value) ==
    IF value.t = "NoneType" THEN FALSE
    ELSE IF value.t \in {"int", "float"} THEN value.v # 0
    ELSE IF IsDict(value) THEN DOMAIN value.v # {}
    ELSE value.v # <<>>

\* bool(value) of None and of a list
py_truthy(value) == value.t = "list" /\ value.v # <<>>

RECURSIVE str_join(_, _)
\* sep.join(items)
str_join(sep, items) ==
    IF items = <<>> THEN <<>>
    ELSE IF Len(items) = 1 THEN items[1]
    ELSE items[1] \o sep \o str_join(sep, Tail(items))

\* f"RECEIVER -* +{' +'.join(self.receiver_protocols)}"
_receiver_script(protocols) ==
    IF py_truthy(protocols)
    THEN << <<82, 69, 67, 69, 73, 86, 69, 82, 32, 45, 42, 32, 43>>
            \o str_join(<<32, 43>>, protocols.v) >>
    ELSE <<>>

\* a protocol that starts with a partial line ("ZIA--o") in its buffer
NewProtocol_dirty(init_script) ==
    [transport |-> FALSE,
     init_script |-> MINIMUM_SCRIPT \o init_script,
     buffer |-> <<90, 73, 65, 45, 45, 111>>,
     state |-> "opening",
     lost_exc |-> "None",
     written |-> <<>>,
     close_calls |-> 0,
     received |-> <<>>,
     lines |-> <<>>,
     rawEvents |-> <<>>,
     devEvents |-> <<>>,
     lostEvents |-> <<>>]

\* RfplayerProtocol.__init__, with the transport create_serial_connection opens
\* for it.  state: opening (connection_made is scheduled), open, closing
\* (connection_lost(lost_exc) is scheduled), closed.
NewProtocol(init_script) ==
    [transport |-> FALSE,                        \* self.transport is not None
     init_script |-> MINIMUM_SCRIPT \o init_script,
     buffer |-> <<>>,
     state |-> "opening",
     lost_exc |-> "None",
     written |-> <<>>,                           \* transport.write calls
     close_calls |-> 0,                          \* transport.close calls
     received |-> <<>>,                          \* all bytes given to data_received
     lines |-> <<>>,                             \* the lines handle_lines took
     rawEvents |-> <<>>,                         \* calls of self.event_callback
     devEvents |-> <<>>,                         \* calls of the client's event_callback
     lostEvents |-> <<>>]                        \* calls of connection_lost

RECURSIVE WriteAll(_)
\* for command in self.init_script: self.send_raw_packet(command)
WriteAll(script) ==
    IF script = <<>> THEN <<>> ELSE <<send_raw_packet(Head(script))>> \o WriteAll(Tail(script))

\* connection_made that keeps the transport and sends nothing
connection_made_silent(p) == [p EXCEPT !.transport = TRUE, !.state = "open"]

connection_made(p) ==
    [p EXCEPT !.transport = TRUE, !.state = "open",
              !.written = p.written \o WriteAll(p.init_script)]

\* an exception `exc` that escaped `op`, raised from `cause` (its __cause__)
ExcFrom(op, exc, cause) == [op |-> op, exc |-> exc, cause |-> cause]
Exc(op, exc) == ExcFrom(op, exc, "none")
NoExc == Exc("none", "none")

\* no platform is set up
PlatformIdle ==
    /\ platform_device_ids = {}
    /\ entities = <<>>
    /\ is_on = [switch |-> "None", binary_sensor |-> "None"]
    /\ applied = <<>>

\* no connection is supervised
SupervisorIdle ==
    /\ hass_state = "running"
    /\ created = 0
    /\ attempts = 0
    /\ timers = 0
    /\ signals = <<>>
    /\ failures = 0

\* no gateway is set up and no profile registry is loaded
GatewayIdle ==
    /\ SupervisorIdle
    /\ config = PyNone
    /\ device_ids = {}
    /\ entry_devices = <<>>
    /\ entry_redirect = <<>>
    /\ handled = <<>>
    /\ registry = <<>>
    /\ lookups = <<>>
    /\ packet = PyNone

ReceiverConfigs ==
    {PyNone, PyList(<<>>), PyList(<< <<88, 50, 68>>, <<82, 84, 83>> >>)}   \* ["X2D", "RTS"]

Init ==
    /\ receiver_protocols \in ReceiverConfigs
    /\ client_protocol = 0
    /\ conns = <<>>
    /\ disconnects = <<>>
    /\ raised = NoExc
    /\ nchunks = 0
    /\ wire = <<>>
    /\ pending = 0
    /\ device_events = <<>>
    /\ PlatformIdle
    /\ GatewayIdle


\* the except clause of connect() that lets OSError through
connect_except_serial_only(err) ==
    IF err = "SerialException" THEN "RfPlayerException" ELSE err

\* connect(): except (SerialException, OSError) as err: raise RfPlayerException
\* from err; anything else that create_serial_connection raises goes through
connect_except(err) ==
    IF err \in {"SerialException", "OSError"} THEN "RfPlayerException" ELSE err

\* async with asyncio.timeout(CONNECTION_TIMEOUT): when the delay is over the
\* task is cancelled, and the CancelledError that comes out of the block leaves
\* it as TimeoutError
asyncio_timeout(exc) == IF exc = "CancelledError" THEN "TimeoutError" ELSE exc

\* _connect_gateway that handles RfPlayerException only
_connect_gateway_no_timeout(exc) ==
    IF exc = "RfPlayerException" THEN "ConfigEntryNotReady" ELSE exc

\* Gateway._connect_gateway: except (RfPlayerException, TimeoutError) as exc:
\* raise ConfigEntryNotReady from exc
_connect_gateway(exc) ==
    IF exc \in {"RfPlayerException", "TimeoutError"} THEN "ConfigEntryNotReady" ELSE exc

\* what escapes _connect_gateway when `exc` comes out of `await client.connect()`
ConnectRaises(exc) ==
    ExcFrom("_connect_gateway", _connect_gateway(asyncio_timeout(exc)), asyncio_timeout(exc))

\* _connect_gateway calls client.connect(), which awaits create_serial_connection
ConnectBegin ==
    /\ pending + Len(conns) < MaxConnects
    /\ pending' = pending + 1
    /\ raised' = NoExc
    /\ UNCHANGED <<receiver_protocols, client_protocol, conns, disconnects, nchunks, wire,
                 nonClientVars>>

\* create_serial_connection builds the protocol and the transport, which
\* schedules connection_made, and returns them; then self._protocol = protocol
Connect ==
    /\ pending > 0
    /\ pending' = pending - 1
    /\ conns' = Append(conns, NewProtocol(_receiver_script(receiver_protocols)))
    /\ client_protocol' = Len(conns) + 1
    /\ raised' = NoExc
    /\ UNCHANGED <<receiver_protocols, disconnects, nchunks, wire,
                 nonClientVars>>

SerialErrors == {"SerialException", "OSError"}

\* create_serial_connection raises SerialException or OSError
ConnectFail(err) ==
    /\ pending > 0
    /\ pending' = pending - 1
    /\ raised' = ConnectRaises(connect_except(err))
    /\ UNCHANGED <<receiver_protocols, client_protocol, conns, disconnects, nchunks, wire,
                 nonClientVars>>

\* the timeout of _connect_gateway is over while connect() still waits: the
\* task is cancelled inside create_serial_connection, before the assignment of
\* self._protocol; a serial port that opens afterwards has no protocol
ConnectTimeout ==
    /\ pending > 0
    /\ pending' = pending - 1
    /\ raised' = ConnectRaises(connect_except("CancelledError"))
    /\ UNCHANGED <<receiver_protocols, client_protocol, conns, disconnects, nchunks, wire,
                 nonClientVars>>

ConnectionMade(c) ==
    /\ c \in DOMAIN conns
    /\ conns[c].state = "opening"
    /\ conns' = [conns EXCEPT ![c] = connection_made(conns[c])]
    /\ raised' = NoExc
    /\ UNCHANGED <<receiver_protocols, client_protocol, disconnects, nchunks, wire, pending,
                 nonClientVars>>

\* transport.close() of the serial transport: the first call on an open transport
\* stops reading and schedules connection_lost(None), later calls do nothing more
transport_close(p) ==
    [p EXCEPT !.close_calls = p.close_calls + 1,
              !.state = IF p.state = "open" THEN "closing" ELSE p.state,
              !.lost_exc = IF p.state = "open" THEN "None" ELSE p.lost_exc]

\* RfPlayerClient.close(): the connections after the call (self._protocol is None
\* after it)
close(cp, cs) ==
    IF cp # 0 /\ cs[cp].transport
    THEN [cs EXCEPT ![cp] = transport_close(cs[cp])]
    ELSE cs

Close ==
    /\ conns' = close(client_protocol, conns)
    /\ client_protocol' = 0
    /\ raised' = NoExc
    /\ UNCHANGED <<receiver_protocols, disconnects, nchunks, wire, pending,
                 nonClientVars>>

\* the serial transport meets an I/O error: it stops reading and schedules
\* connection_lost(exc)
TransportError(c) ==
    /\ c \in DOMAIN conns
    /\ conns[c].state = "open"
    /\ conns' = [conns EXCEPT ![c].state = "closing", ![c].lost_exc = "SerialException"]
    /\ raised' = NoExc
    /\ UNCHANGED <<receiver_protocols, client_protocol, disconnects, nchunks, wire, pending,
                 nonClientVars>>

\* a _disconnect_callback_internal that takes the exception connection_lost passes
DisconnectCallbackParams_exc == Len(<<"exc">>)

\* positional parameters of _disconnect_callback_internal besides self
DisconnectCallbackParams == 0

\* RfplayerProtocol.connection_lost(exc) calls self.disconnect_callback(exc), which
\* RfPlayerClient.connect set to _disconnect_callback_internal: a call whose
\* arguments do not fit its parameters raises TypeError before its body runs; the
\* body is self.close(); self.disconnect_callback()
ConnectionLost(c) ==
    /\ c \in DOMAIN conns
    /\ conns[c].state = "closing"
    /\ LET args == <<conns[c].lost_exc>>
           cs == [conns EXCEPT ![c].state = "closed",
                               ![c].lostEvents = Append(@, conns[c].lost_exc)]
       IN  IF Len(args) # DisconnectCallbackParams
           THEN /\ raised' = Exc("connection_lost", "TypeError")
                /\ conns' = cs
                /\ UNCHANGED <<client_protocol, disconnects>>
           ELSE /\ conns' = close(client_protocol, cs)
                /\ client_protocol' = 0
                /\ disconnects' = Append(disconnects, [conn |-> c, args |-> <<>>])
                /\ raised' = NoExc
    /\ UNCHANGED <<receiver_protocols, nchunks, wire, pending,
                 nonClientVars>>

Commands == { <<83, 84, 65, 84, 85, 83>> }   \* "STATUS"

SendRawCommand(command) ==
    /\ IF client_protocol = 0 \/ ~conns[client_protocol].transport
       THEN /\ raised' = Exc("send_raw_command", "RfPlayerException")
            /\ UNCHANGED conns
       ELSE /\ Len(conns[client_protocol].written)
                  < Len(conns[client_protocol].init_script) + MaxSends
            /\ conns' = [conns EXCEPT ![client_protocol].written =
                            Append(@, send_raw_packet(command))]
            /\ raised' = NoExc
    /\ UNCHANGED <<receiver_protocols, client_protocol, disconnects, nchunks, wire, pending,
                 nonClientVars>>

RECURSIVE Flatten(_, _)
\* the values of field f of the log entries, in order
Flatten(log, f) ==
    IF log = <<>> THEN <<>> ELSE log[1][f] \o Flatten(Tail(log), f)

\* the transport gives the protocol of connection c the bytes `data`
Receive(c, data) ==
    \E r \in {data_received(PORT, conns[c].buffer, data)} :
        /\ conns' = [conns EXCEPT ![c].buffer = r.buffer,
                                  ![c].received = @ \o data,
                                  ![c].lines = @ \o r.log,
                                  ![c].rawEvents = @ \o Flatten(r.log, "raw"),
                                  ![c].devEvents = @ \o Flatten(r.log, "dev")]
        /\ raised' = IF r.log = <<>> \/ r.log[Len(r.log)].exc = "none" THEN NoExc
                     ELSE Exc("data_received", r.log[Len(r.log)].exc)

\* ZIA--ok\n\rZIA33{"a":1}\n\r and ZIA33{\n\r
SessionChunks ==
    { <<90, 73, 65, 45, 45, 111, 107, 10, 13,
        90, 73, 65, 51, 51, 123, 34, 97, 34, 58, 49, 125, 10, 13>>,
      <<90, 73, 65, 51, 51, 123, 10, 13>> }

DataReceived(c, data) ==
    /\ c \in DOMAIN conns
    /\ conns[c].state = "open"
    /\ nchunks < MaxChunks
    /\ nchunks' = nchunks + 1
    /\ Receive(c, data)
    /\ UNCHANGED <<receiver_protocols, client_protocol, disconnects, wire, pending,
                 nonClientVars>>

Next ==
    \/ ConnectBegin
    \/ Connect
    \/ \E err \in SerialErrors : ConnectFail(err)
    \/ ConnectTimeout
    \/ \E c \in DOMAIN conns : ConnectionMade(c)
    \/ Close
    \/ \E c \in DOMAIN conns : TransportError(c)
    \/ \E c \in DOMAIN conns : ConnectionLost(c)
    \/ \E command \in Commands : SendRawCommand(command)
    \/ \E c \in DOMAIN conns : \E data \in SessionChunks : DataReceived(c, data)

Spec == Init /\ [][Next]_vars

----------------------------------------------------------------------------
(* The frame decoder on its own: one connected protocol reads a byte stream *)
(* from the serial line in chunks of any size.                              *)

AsciiLines ==
    { <<90, 73, 65, 45, 45, 111, 107>>,                        \* ZIA--ok
      <<90, 73, 65, 51, 51, 123, 34, 97, 34, 58, 49, 125>>,    \* ZIA33{"a":1}
      <<90, 73, 65, 51, 51, 123>>,                             \* ZIA33{
      <<90, 73, 65, 48, 48, 120, 121, 122>>,                   \* ZIA00xyz
      <<90, 73, 66, 45, 45, 120>>,                             \* ZIB--x
      <<32, 0, 90, 73, 65, 51, 51, 9>> }                       \* " \0ZIA33\t"

NoisyLines ==
    { <<90, 73, 65, 45, 45, 195, 169>>,                        \* ZIA--é in UTF-8
      <<90, 73, 65, 45, 45, 255>> }                            \* ZIA-- and the byte 0xFF

RECURSIVE StreamsOf(_, _)
\* the streams of n lines of the set L, each ended by \n\r
StreamsOf(L, n) ==
    IF n = 0 THEN {<<>>}
    ELSE {l \o END_OF_LINE \o s : l \in L, s \in StreamsOf(L, n - 1)}

\* ZIA33{\n\rZIA--ok\n\r and the byte 0xFF: two lines, then line noise
NoiseAfterLines ==
    { <<90, 73, 65, 51, 51, 123, 10, 13, 90, 73, 65, 45, 45, 111, 107, 10, 13, 255>> }

\* up to MaxLines ASCII lines, or one or two lines of which one at least holds a
\* byte above 0x7F, or two lines followed by noise
Streams ==
    UNION {StreamsOf(AsciiLines, n) : n \in 1..MaxLines}
    \cup {s \in StreamsOf(AsciiLines \cup NoisyLines, 1)
                \cup StreamsOf(AsciiLines \cup NoisyLines, 2) :
             \E i \in DOMAIN s : s[i] >= 128}
    \cup NoiseAfterLines

InitDecode ==
    /\ receiver_protocols = PyNone
    /\ client_protocol = 1
    /\ conns = <<connection_made(NewProtocol(_receiver_script(PyNone)))>>
    /\ disconnects = <<>>
    /\ raised = NoExc
    /\ nchunks = 0
    /\ wire \in Streams
    /\ pending = 0
    /\ device_events = <<>>
    /\ PlatformIdle
    /\ GatewayIdle

\* the transport reads the next k bytes of the serial line
Feed(k) ==
    /\ k \in 1..Len(wire)
    /\ conns[1].state = "open"
    /\ Receive(1, SubSeq(wire, 1, k))
    /\ wire' = SubSeq(wire, k + 1, Len(wire))
    /\ UNCHANGED <<receiver_protocols, client_protocol, disconnects, nchunks, pending,
                 nonClientVars>>

NextDecode == \E k \in 1..Len(wire) : Feed(k)

SpecDecode == InitDecode /\ [][NextDecode]_vars

----------------------------------------------------------------------------
(* The device adapter on its own: an RfDeviceEventAdapter is handed structured *)
(* packets, and device events are rebuilt from stored device infos.          *)

MaxEvents == 1       \* device events built

S_1 == <<49>>                                     \* "1"
S_2 == <<50>>                                     \* "2"
S_3 == <<51>>                                     \* "3"
S_X2D == <<88, 50, 68>>                           \* "X2D"
S_OREGON == <<79, 82, 69, 71, 79, 78>>            \* "OREGON"
S_On == <<79, 110>>                               \* "On"
S_OFF == <<79, 70, 70>>                           \* "OFF"
S_PCR800 == <<80, 67, 82, 56, 48, 48>>            \* "PCR800"
S_Detector == <<68, 101, 116, 101, 99, 116, 111, 114>>   \* "Detector"
S_switch == <<115, 119, 105, 116, 99, 104>>       \* "switch"

\* the dicts that give each key of a subset of the keys of `choices` one of the
\* values `choices` has for it
DictsOver(choices) ==
    UNION {{d \in [ks -> UNION {choices[k] : k \in ks}] : \A k \in ks : d[k] \in choices[k]} :
             ks \in SUBSET DOMAIN choices}

InfosDicts ==
    DictsOver([k \in {K_id, K_id_channel, K_adr_channel, K_id_PHYMeaning, K_subTypeMeaning} |->
                 IF k = K_id THEN {PyStr(S_1), PyInt(17)}
                 ELSE IF k = K_id_channel THEN {PyStr(S_2)}
                 ELSE IF k = K_adr_channel THEN {PyStr(S_3)}
                 ELSE IF k = K_id_PHYMeaning THEN {PyStr(S_On), PyStr(S_PCR800)}
                 ELSE {PyStr(S_OFF), PyStr(S_Detector)}])

\* JsonPacketType({"frame": {"header": {"protocolMeaning": p}, "infos": infos}})
JsonPacket(protocol, infos) ==
    [t |-> "JsonPacketType",
     v |-> [k \in {K_frame} |->
              PyDict([j \in {K_header, K_infos} |->
                        IF j = K_header
                        THEN PyDict([h \in {K_protocolMeaning} |-> PyStr(protocol)])
                        ELSE PyDict(infos)])]]

JsonPackets == {JsonPacket(protocol, infos) : protocol \in {S_X2D, S_OREGON}, infos \in InfosDicts}

\* the device infos of the configuration entry: protocol and address, and
\* perhaps a model and a group id
DeviceInfos ==
    [protocol : {PyStr(S_X2D), PyStr(S_OREGON)},
     address : {PyStr(S_1), PyStr(S_2)},
     model : {PyNone, PyStr(S_switch), PyStr(S_PCR800)},
     group_id : {PyNone, PyStr(<<>>), PyStr(S_1)}]

InitDevice ==
    /\ receiver_protocols = PyNone
    /\ client_protocol = 0
    /\ conns = <<>>
    /\ disconnects = <<>>
    /\ raised = NoExc
    /\ nchunks = 0
    /\ wire = <<>>
    /\ pending = 0
    /\ device_events = <<>>
    /\ PlatformIdle
    /\ GatewayIdle

\* adapter.raw_event_callback(raw_packet) with device_event_callback recording
\* its calls
RawEventCallback(raw_packet) ==
    /\ Len(device_events) < MaxEvents
    /\ \E r \in {raw_event_callback(PORT, raw_packet)} :
          /\ device_events' = device_events \o r.dev
          /\ raised' = IF r.exc = "none" THEN NoExc ELSE Exc("raw_event_callback", r.exc)
    /\ UNCHANGED <<clientVars, supervisorVars, gatewayVars, profileVars, platformVars>>

\* _build_event_from_device_info(device_info) without event data
_build_event_from_device_info(device_info) ==
    RfDeviceEvent(RfDeviceId(device_info.protocol, device_info.address,
                             device_info.group_id, device_info.model),
                  PyNone)

BuildEventFromDeviceInfo(device_info) ==
    /\ Len(device_events) < MaxEvents
    /\ device_events' = Append(device_events, _build_event_from_device_info(device_info))
    /\ raised' = NoExc
    /\ UNCHANGED <<clientVars, supervisorVars, gatewayVars, profileVars, platformVars>>

NextDevice ==
    \/ \E raw_packet \in JsonPackets : RawEventCallback(raw_packet)
    \/ \E device_info \in DeviceInfos : BuildEventFromDeviceInfo(device_info)

SpecDevice == InitDevice /\ [][NextDevice]_vars

----------------------------------------------------------------------------
(* The gateway's event handler on its own: device events are handed to       *)
(* Gateway._async_handle_receive.                                            *)

MaxReceives == 2     \* events handed to the gateway

\* RfDeviceId.id_string, the identity string of the device
id_string(device) == device_id(device)

ID_JAMMING_0 == <<74, 65, 77, 77, 73, 78, 71, 95, 48>>   \* "JAMMING_0"
ID_X2D_1 == <<88, 50, 68, 45, 49>>                       \* "X2D-1"
ID_X2D_2 == <<88, 50, 68, 45, 50>>                       \* "X2D-2"
ID_X2D_3 == <<88, 50, 68, 45, 51>>                       \* "X2D-3"

\* {CONF_PROTOCOL: protocol, CONF_ADDRESS: address}
DeviceInfo(protocol, address) == [protocol |-> PyStr(protocol), address |-> PyStr(address)]

JAMMING_DEVICE_INFO == DeviceInfo(<<74, 65, 77, 77, 73, 78, 71>>, <<48>>)

\* the device info stored for a device added from an event
build_device_info_from_event(event) ==
    [protocol |-> event.device.protocol, address |-> event.device.address]

\* the entry data: automatic_add, redirect_address from the identity string of a
\* device to that of its target, and the configured devices, to which
\* Gateway.__init__ adds the jamming detector
GatewayConfigs ==
    [automatic_add : BOOLEAN,
     redirect_address : {<<>>, ID_X2D_1 :> ID_X2D_2, ID_X2D_1 :> ID_X2D_3},
     devices : {ID_JAMMING_0 :> JAMMING_DEVICE_INFO,
                (ID_JAMMING_0 :> JAMMING_DEVICE_INFO) @@ (ID_X2D_2 :> DeviceInfo(S_X2D, S_2))}]

GatewayEvents ==
    {RfDeviceEvent(RfDeviceId(PyStr(protocol), PyStr(address), PyNone, PyStr(S_switch)), PyNone) :
        protocol \in {S_X2D, S_OREGON}, address \in {S_1, S_2}}

InitGateway ==
    /\ SupervisorIdle
    /\ receiver_protocols = PyNone
    /\ client_protocol = 0
    /\ conns = <<>>
    /\ disconnects = <<>>
    /\ raised = NoExc
    /\ nchunks = 0
    /\ wire = <<>>
    /\ pending = 0
    /\ device_events = <<>>
    /\ PlatformIdle
    /\ config \in GatewayConfigs
    /\ device_ids = {}
    /\ entry_devices = config.devices
    /\ entry_redirect = config.redirect_address
    /\ handled = <<>>
    /\ registry = <<>>
    /\ lookups = <<>>
    /\ packet = PyNone

\* Gateway._add_rf_device: the devices of the entry after it; the entry gets new
\* data, self.config keeps the data it was built with
_add_rf_device(devices, event) ==
    (id_string(event.device) :> build_device_info_from_event(event)) @@ devices

\* the redirect step of _async_handle_receive: the event after it, or KeyError
\* when the target of the redirection is not a configured device
Redirect(cfg, event) ==
    IF id_string(event.device) \notin DOMAIN cfg.redirect_address THEN Ok(event)
    ELSE IF cfg.redirect_address[id_string(event.device)] \notin DOMAIN cfg.devices
    THEN Raise("KeyError")
    ELSE Ok([event EXCEPT !.device.address =
                cfg.devices[cfg.redirect_address[id_string(event.device)]].address])

\* Gateway._async_handle_receive(event)
AsyncHandleReceive(event) ==
    /\ Len(handled) < MaxReceives
    /\ IF id_string(event.device) \notin device_ids /\ config.automatic_add
       THEN /\ entry_devices' = _add_rf_device(entry_devices, event)
            /\ device_ids' = device_ids \cup {id_string(event.device)}
       ELSE UNCHANGED <<entry_devices, device_ids>>
    /\ \E r \in {Redirect(config, event)} :
          /\ handled' = Append(handled,
                 [received |-> event, config |-> config,
                  dispatched |-> IF r.exc = "none" THEN <<r.val>> ELSE <<>>])
          /\ raised' = IF r.exc = "none" THEN NoExc ELSE Exc("_async_handle_receive", r.exc)
    /\ UNCHANGED <<clientVars, supervisorVars, adapterVars, platformVars, profileVars, config, entry_redirect>>

\* the devices of the entry after Gateway._remove_rf_device(id)
_remove_rf_device(devices, id) == [k \in DOMAIN devices \ {id} |-> devices[k]]

\* set.remove(item): the set after it, or KeyError
set_remove(set, item) == IF item \in set THEN Ok(set \ {item}) ELSE Raise("KeyError")

\* Gateway._updated_rf_device for the removal of a device of this entry whose
\* identifiers give the string id: _remove_rf_device(id) updates the entry and
\* then takes id out of self.device_ids
RemoveRfDevice(id) ==
    /\ id \in DOMAIN entry_devices
    /\ entry_devices' = _remove_rf_device(entry_devices, id)
    /\ \E r \in {set_remove(device_ids, id)} :
          /\ device_ids' = IF r.exc = "none" THEN r.val ELSE device_ids
          /\ raised' = IF r.exc = "none" THEN NoExc ELSE Exc("_remove_rf_device", r.exc)
    /\ UNCHANGED <<clientVars, supervisorVars, adapterVars, platformVars, profileVars, config, entry_redirect,
                   handled>>

\* build_device_id_from_device_info(device_info).id_string
build_device_id_from_device_info(device_info) ==
    id_string(RfDeviceId(device_info.protocol, device_info.address, PyNone, PyNone))

\* device_info.get(CONF_REDIRECT_ADDRESS)
get_redirect_address(device_info) ==
    IF "redirect_address" \in DOMAIN device_info THEN device_info.redirect_address ELSE PyNone

\* a redirect map from the identity of each redirected device to itself
RedirectMapOf_own(devices) ==
    [d \in {d \in DOMAIN devices : py_bool(get_redirect_address(devices[d]))} |-> d]

\* the redirect map update_config_data builds from the devices: for each device
\* with a redirect address, from the identity of (its protocol, that address) to
\* the device's own identity
RedirectMapOf(devices) ==
    [key \in {build_device_id_from_device_info(
                  [devices[d] EXCEPT !.address = get_redirect_address(devices[d])]) :
                  d \in {d \in DOMAIN devices : py_bool(get_redirect_address(devices[d]))}} |->
        CHOOSE d \in DOMAIN devices :
            /\ py_bool(get_redirect_address(devices[d]))
            /\ build_device_id_from_device_info(
                   [devices[d] EXCEPT !.address = get_redirect_address(devices[d])]) = key]

\* the devices after entry_data[CONF_DEVICES].setdefault(id, {}).update(options)
\* for a device the entry has
UpdateDeviceOptions(devices, id, options) ==
    [devices EXCEPT ![id] = options @@ devices[id]]

\* Gateway.__init__: self.config is the entry data, whose devices get the
\* jamming detector
Gateway_init(data) ==
    [data EXCEPT !.devices = (ID_JAMMING_0 :> JAMMING_DEVICE_INFO) @@ data.devices]

\* no other device of the protocol of device id redirects from this address
NoOtherRedirect(devices, id, address) ==
    \A d \in DOMAIN devices \ {id} :
        devices[d].protocol = devices[id].protocol => get_redirect_address(devices[d]) # address

RedirectAddresses == {PyStr(S_1), PyStr(S_3), PyNone}

\* the options flow saves the redirect address of device id:
\* update_config_data(devices={id: {redirect_address: address}}) updates the
\* entry; the reload it schedules is the action Reload
ConfigureRedirect(id, address) ==
    /\ id \in DOMAIN entry_devices
    /\ get_redirect_address(entry_devices[id]) # address
    /\ address # PyNone => NoOtherRedirect(entry_devices, id, address)
    /\ \E devices \in {UpdateDeviceOptions(entry_devices, id, [redirect_address |-> address])} :
          /\ entry_devices' = devices
          /\ entry_redirect' = RedirectMapOf(devices)
    /\ raised' = NoExc
    /\ UNCHANGED <<clientVars, supervisorVars, adapterVars, platformVars, profileVars, config, device_ids,
                   handled>>

\* the entry is loaded again: a new Gateway is built on the data of the entry
Reload ==
    /\ \E data \in {Gateway_init([config EXCEPT !.devices = entry_devices,
                                               !.redirect_address = entry_redirect])} :
          /\ data # config \/ device_ids # {}
          /\ config' = data
          /\ entry_devices' = data.devices
    /\ device_ids' = {}
    /\ raised' = NoExc
    /\ UNCHANGED <<clientVars, supervisorVars, adapterVars, platformVars, profileVars, entry_redirect,
                   handled>>

NextGateway ==
    \/ \E event \in GatewayEvents : AsyncHandleReceive(event)
    \/ \E id \in DOMAIN entry_devices : RemoveRfDevice(id)

SpecGateway == InitGateway /\ [][NextGateway]_vars

----------------------------------------------------------------------------
(* The gateway and the options flow of config_flow.py: the redirect address  *)
(* of a device is configured, devices are removed, the entry is loaded      *)
(* again, events arrive.                                                     *)

\* an entry without redirections whose devices are the jamming detector and
\* X2D-2
InitRedirect ==
    /\ SupervisorIdle
    /\ receiver_protocols = PyNone
    /\ client_protocol = 0
    /\ conns = <<>>
    /\ disconnects = <<>>
    /\ raised = NoExc
    /\ nchunks = 0
    /\ wire = <<>>
    /\ pending = 0
    /\ device_events = <<>>
    /\ PlatformIdle
    /\ config \in {c \in GatewayConfigs : c.redirect_address = <<>> /\ ID_X2D_2 \in DOMAIN c.devices}
    /\ device_ids = {}
    /\ entry_devices = config.devices
    /\ entry_redirect = config.redirect_address
    /\ handled = <<>>
    /\ registry = <<>>
    /\ lookups = <<>>
    /\ packet = PyNone

ConfigurableIds == {ID_X2D_2}

\* events of the devices with address 1: X2D-1 and OREGON-1
RedirectEvents == {event \in GatewayEvents : event.device.address = PyStr(S_1)}

NextRedirect ==
    \/ \E event \in RedirectEvents : AsyncHandleReceive(event)
    \/ \E id \in ConfigurableIds : \E address \in RedirectAddresses :
          ConfigureRedirect(id, address)
    \/ \E id \in ConfigurableIds : RemoveRfDevice(id)
    \/ Reload

SpecRedirect == InitRedirect /\ [][NextRedirect]_vars

----------------------------------------------------------------------------
(* The profile registry on its own: events are looked up in a registry of    *)
(* device profiles.                                                          *)

MaxLookups == 1      \* calls of the registry's methods

K_infoType == <<105, 110, 102, 111, 84, 121, 112, 101>>   \* "infoType"
K_subType == <<115, 117, 98, 84, 121, 112, 101>>          \* "subType"
K_id_PHY == <<105, 100, 95, 80, 72, 89>>                  \* "id_PHY"

RECURSIVE GetPath(_, _)
\* obj[keys[1]][keys[2]]...
GetPath(obj, keys) ==
    IF keys = <<>> THEN Ok(obj)
    ELSE Eval(py_getitem(obj, Head(keys)), LAMBDA item :
            IF item.exc # "none" THEN item ELSE GetPath(item.val, Tail(keys)))

IsPrefix(p, text) == Len(p) <= Len(text) /\ SubSeq(text, 1, Len(p)) = p

RECURSIVE SplitBar(_, _)
\* the alternatives of a pattern, separated by |
SplitBar(pattern, acc) ==
    IF pattern = <<>> THEN <<acc>>
    ELSE IF Head(pattern) = 124 THEN <<acc>> \o SplitBar(Tail(pattern), <<>>)
    ELSE SplitBar(Tail(pattern), Append(acc, Head(pattern)))

\* bool(re.match(pattern, string)) for patterns made of literal characters, | and
\* a closing $: one alternative has to match at the start of the string, up to
\* its end if the alternative closes with $
re_match(pattern, string) ==
    IF ~IsStr(string) THEN Raise("TypeError")
    ELSE Ok(\E i \in DOMAIN SplitBar(pattern, <<>>) :
               \E alt \in {SplitBar(pattern, <<>>)[i]} :
                   IF alt # <<>> /\ alt[Len(alt)] = 36
                   THEN SubSeq(alt, 1, Len(alt) - 1) = string.v
                   ELSE IsPrefix(alt, string.v))

\* bool(value) of an optional str of a match rule
RuleFieldSet(value) == value # PyNone /\ value.v # <<>>

\* if m.protocol: ... if not re.match(m.protocol, protocol): return False
_match_protocol(event_data, m) ==
    IF ~RuleFieldSet(m.protocol) THEN Ok(TRUE)
    ELSE Eval(GetPath(event_data, <<K_frame, K_header, K_protocolMeaning>>), LAMBDA v :
            IF v.exc # "none" THEN v ELSE re_match(m.protocol.v, v.val))

\* if info_type != m.info_type: return False
_match_info_type(event_data, m) ==
    Eval(GetPath(event_data, <<K_frame, K_header, K_infoType>>), LAMBDA v :
        IF v.exc # "none" THEN v ELSE Ok(v.val = m.info_type))

\* the sub_type test left out
_match_sub_type_ignored(event_data, m) == Ok(TRUE)

\* if m.sub_type: ... if sub_type != m.sub_type: return False
_match_sub_type(event_data, m) ==
    IF ~RuleFieldSet(m.sub_type) THEN Ok(TRUE)
    ELSE Eval(GetPath(event_data, <<K_frame, K_infos, K_subType>>), LAMBDA v :
            IF v.exc # "none" THEN v ELSE Ok(v.val = m.sub_type))

\* if m.id_phy: ... if not re.match(m.id_phy, id_phy): return False
_match_id_phy(event_data, m) ==
    IF ~RuleFieldSet(m.id_phy) THEN Ok(TRUE)
    ELSE Eval(GetPath(event_data, <<K_frame, K_infos, K_id_PHY>>), LAMBDA v :
            IF v.exc # "none" THEN v ELSE re_match(m.id_phy.v, v.val))

\* ProfileRegistry._event_is_matching: Ok(TRUE), Ok(FALSE) or the exception
_event_is_matching(event_data, profile) ==
    IF ~IsDict(event_data) THEN Ok(FALSE)
    ELSE Eval(_match_protocol(event_data, profile.match), LAMBDA r1 :
    IF r1.exc # "none" \/ ~r1.val THEN r1
    ELSE Eval(_match_info_type(event_data, profile.match), LAMBDA r2 :
    IF r2.exc # "none" \/ ~r2.val THEN r2
    ELSE Eval(_match_sub_type(event_data, profile.match), LAMBDA r3 :
    IF r3.exc # "none" \/ ~r3.val THEN r3
    ELSE _match_id_phy(event_data, profile.match))))

\* ProfileRegistry._is_matching of rfprofiles/registry.py: the same tests
_is_matching(raw_packet, profile) == _event_is_matching(raw_packet, profile)

RECURSIVE FirstMatching(_, _, _)
\* next(entry for entry in self._registry if self._event_is_matching(event_data,
\* entry), None), from index i on: the entry, None, or the exception
FirstMatching(reg, event_data, i) ==
    IF i > Len(reg) THEN Ok(PyNone)
    ELSE Eval(_event_is_matching(event_data, reg[i]), LAMBDA r :
            IF r.exc # "none" THEN r
            ELSE IF r.val THEN Ok(reg[i])
            ELSE FirstMatching(reg, event_data, i + 1))

\* ProfileRegistry.get_profile_name_from_event
get_profile_name_from_event(reg, event_data) ==
    Eval(FirstMatching(reg, event_data, 1), LAMBDA profile :
        IF profile.exc # "none" \/ profile.val = PyNone THEN profile
        ELSE Ok(PyStr(profile.val.name)))

RfPDeviceMatch(protocol, info_type, sub_type, id_phy) ==
    [protocol |-> protocol, info_type |-> info_type, sub_type |-> sub_type, id_phy |-> id_phy]

\* the fields of RfpPlatformConfigMap
PLATFORM_FIELDS == {"binary_sensor", "climate", "cover", "light", "sensor", "switch"}

\* RfpPlatformConfigMap built from the platforms a profile declares: a field the
\* profile does not declare is None
RfpPlatformConfigMap(declared) ==
    [f \in PLATFORM_FIELDS |-> IF f \in DOMAIN declared THEN declared[f] ELSE PyNone]

\* RfpPlatformConfigMap.get: vars(self).get(platform, [])
RfpPlatformConfigMap_get(platforms, platform) ==
    IF platform \in DOMAIN platforms THEN platforms[platform] ELSE PyList(<<>>)

RfpDeviceProfile(name, match, platforms) ==
    [name |-> name, match |-> match, platforms |-> platforms]

S_4 == <<52>>                                   \* "4"
S_10 == <<49, 48>>                              \* "10"
S_0 == <<48>>                                   \* "0"
S_0x1A == <<48, 120, 49, 65>>                   \* "0x1A"
S_0x1A2D == <<48, 120, 49, 65, 50, 68>>         \* "0x1A2D"
S_RTS_OREGON == <<82, 84, 83, 124, 79, 82, 69, 71, 79, 78, 36>>   \* "RTS|OREGON$"

\* a catch-all for info type 4, X2D with sub type 0, an id_PHY prefix, and
\* RTS or OREGON with info type 10
Profiles ==
    {RfpDeviceProfile(<<65>>, RfPDeviceMatch(PyNone, PyStr(S_4), PyNone, PyNone),
                      RfpPlatformConfigMap(<<>>)),
     RfpDeviceProfile(<<66>>, RfPDeviceMatch(PyStr(S_X2D), PyStr(S_4), PyStr(S_0), PyNone),
                      RfpPlatformConfigMap(<<>>)),
     RfpDeviceProfile(<<67>>, RfPDeviceMatch(PyNone, PyStr(S_4), PyNone, PyStr(S_0x1A)),
                      RfpPlatformConfigMap(<<>>)),
     RfpDeviceProfile(<<68>>, RfPDeviceMatch(PyStr(S_RTS_OREGON), PyStr(S_10), PyNone, PyNone),
                      RfpPlatformConfigMap(<<>>))}

\* two profiles with different names, in either order
Registries == {<<p, q>> : p \in Profiles, q \in Profiles} \ {<<p, p>> : p \in Profiles}

\* {"frame": {"header": {"protocolMeaning": .., "infoType": ..}, "infos": infos}}
EventData(protocol, info_type, infos) ==
    PyDict([k \in {K_frame} |->
              PyDict([j \in {K_header, K_infos} |->
                        IF j = K_header
                        THEN PyDict([h \in {K_protocolMeaning, K_infoType} |->
                                        IF h = K_protocolMeaning THEN PyStr(protocol)
                                        ELSE PyStr(info_type)])
                        ELSE PyDict(infos)])])

\* {"frame": {"header": header, "infos": {}}}
EventDataOfHeader(header) ==
    PyDict([k \in {K_frame} |->
              PyDict([j \in {K_header, K_infos} |->
                        IF j = K_header THEN PyDict(header) ELSE PyDict(<<>>)])])

\* packets with protocolMeaning and infoType, with and without subType and
\* id_PHY, and two packets whose header lacks infoType or protocolMeaning
EventDatas ==
    {EventData(protocol, info_type, infos) :
        protocol \in {S_X2D, S_OREGON}, info_type \in {S_4, S_10},
        infos \in DictsOver([k \in {K_subType, K_id_PHY} |->
                                IF k = K_subType THEN {PyStr(S_0), PyStr(S_1)}
                                ELSE {PyStr(S_0x1A2D)}])}
    \cup {EventDataOfHeader(K_protocolMeaning :> PyStr(S_X2D)),
          EventDataOfHeader(K_infoType :> PyStr(S_4))}

InitProfiles ==
    /\ SupervisorIdle
    /\ receiver_protocols = PyNone
    /\ client_protocol = 0
    /\ conns = <<>>
    /\ disconnects = <<>>
    /\ raised = NoExc
    /\ nchunks = 0
    /\ wire = <<>>
    /\ pending = 0
    /\ device_events = <<>>
    /\ PlatformIdle
    /\ config = PyNone
    /\ device_ids = {}
    /\ entry_devices = <<>>
    /\ entry_redirect = <<>>
    /\ handled = <<>>
    /\ registry \in Registries
    /\ lookups = <<>>
    /\ packet = PyNone

\* registry._event_is_matching(event_data, registry._registry[i])
EventIsMatching(event_data, i) ==
    /\ Len(lookups) < MaxLookups
    /\ i \in DOMAIN registry
    /\ \E r \in {_event_is_matching(event_data, registry[i])} :
          /\ lookups' = Append(lookups, [op |-> "_event_is_matching", event_data |-> event_data,
                                         profile |-> i, result |-> r])
          /\ raised' = IF r.exc = "none" THEN NoExc ELSE Exc("_event_is_matching", r.exc)
    /\ UNCHANGED <<clientVars, supervisorVars, adapterVars, platformVars, gatewayVars, registry, packet>>

\* registry.get_profile_name_from_event(event_data)
GetProfileNameFromEvent(event_data) ==
    /\ Len(lookups) < MaxLookups
    /\ \E r \in {get_profile_name_from_event(registry, event_data)} :
          /\ lookups' = Append(lookups, [op |-> "get_profile_name_from_event",
                                         event_data |-> event_data, profile |-> 0, result |-> r])
          /\ raised' = IF r.exc = "none" THEN NoExc ELSE Exc("get_profile_name_from_event", r.exc)
    /\ UNCHANGED <<clientVars, supervisorVars, adapterVars, platformVars, gatewayVars, registry, packet>>

NextProfiles ==
    \/ \E event_data \in EventDatas : \E i \in DOMAIN registry : EventIsMatching(event_data, i)
    \/ \E event_data \in EventDatas : GetProfileNameFromEvent(event_data)

SpecProfiles == InitProfiles /\ [][NextProfiles]_vars

----------------------------------------------------------------------------
(* device_profiles.py, value extraction: the platform configs of a profile   *)
(* and the values and units their value configs find in one event.  A        *)
(* JSONPath is the sequence of the keys it descends through.  A float is the *)
(* whole number it equals.                                                   *)

MaxExtracts == 2     \* calls of the registry and of its configs on one event

PyFloat(n) == [t |-> "float", v |-> n]

IsDecimal(text) == text # <<>> /\ \A i \in DOMAIN text : text[i] >= 48 /\ text[i] <= 57

\* int(value) of an int and of a str that is decimal digits or holds a letter
py_int(value) ==
    IF value.t = "int" THEN Ok(value.v)
    ELSE IF ~IsStr(value) THEN Raise("TypeError")
    ELSE IF IsDecimal(value.v) THEN Ok(Decimal(value.v))
    ELSE Raise("ValueError")

\* float(value) of an int, a float and of a str that is decimal digits or holds
\* a letter
py_float(value) ==
    IF value.t \in {"int", "float"} THEN Ok(value.v)
    ELSE IF ~IsStr(value) THEN Raise("TypeError")
    ELSE IF IsDecimal(value.v) THEN Ok(Decimal(value.v))
    ELSE Raise("ValueError")

\* str(x) of a float that is a whole number
str_float(n) == Digits(n) \o <<46, 48>>

RECURSIVE BitAnd(_, _)
\* a & b of natural numbers
BitAnd(a, b) ==
    IF a = 0 \/ b = 0 THEN 0
    ELSE 2 * BitAnd(a \div 2, b \div 2) + (IF a % 2 = 1 /\ b % 2 = 1 THEN 1 ELSE 0)

RECURSIVE ShiftRight(_, _)
\* a >> k of natural numbers
ShiftRight(a, k) == IF k = 0 THEN a ELSE ShiftRight(a \div 2, k - 1)

S_undefined == <<117, 110, 100, 101, 102, 105, 110, 101, 100>>   \* "undefined"

JsonValueConfig(value_path, unit_path, bit_mask, bit_offset, map, factor) ==
    [value_path |-> value_path, unit_path |-> unit_path, bit_mask |-> bit_mask,
     bit_offset |-> bit_offset, map |-> map, factor |-> factor]

\* if self.bit_mask: result = str(int(result) & self.bit_mask)
_convert_bit_mask(self, result) ==
    IF result.exc # "none" \/ ~py_bool(self.bit_mask) THEN result
    ELSE Eval(py_int(result.val), LAMBDA n :
            IF n.exc # "none" THEN Raise(n.exc)
            ELSE Ok(PyStr(Digits(BitAnd(n.val, self.bit_mask.v)))))

\* if self.bit_offset: result = str(int(result) >> self.bit_offset)
_convert_bit_offset(self, result) ==
    IF result.exc # "none" \/ ~py_bool(self.bit_offset) THEN result
    ELSE Eval(py_int(result.val), LAMBDA n :
            IF n.exc # "none" THEN Raise(n.exc)
            ELSE Ok(PyStr(Digits(ShiftRight(n.val, self.bit_offset.v)))))

\* the map step with None for a key the map lacks
_convert_map_none(self, result) ==
    IF result.exc # "none" \/ ~py_bool(self.map) THEN result
    ELSE IF IsStr(result.val) /\ result.val.v \in DOMAIN self.map.v
         THEN Ok(PyStr(self.map.v[result.val.v]))
    ELSE Ok(PyNone)

\* if self.map: result = self.map.get(result, "undefined"), of a str or a number
_convert_map(self, result) ==
    IF result.exc # "none" \/ ~py_bool(self.map) THEN result
    ELSE IF IsStr(result.val) /\ result.val.v \in DOMAIN self.map.v
         THEN Ok(PyStr(self.map.v[result.val.v]))
    ELSE Ok(PyStr(S_undefined))

\* if self.factor: result = str(float(result) * self.factor)
_convert_factor(self, result) ==
    IF result.exc # "none" \/ ~py_bool(self.factor) THEN result
    ELSE Eval(py_float(result.val), LAMBDA x :
            IF x.exc # "none" THEN Raise(x.exc)
            ELSE Ok(PyStr(str_float(x.val * self.factor.v))))

\* _convert that shifts before it masks
_convert_shift_first(self, value) ==
    _convert_factor(self, _convert_map(self,
        _convert_bit_mask(self, _convert_bit_offset(self, Ok(value)))))

\* _convert that swallows a conversion error and returns the value unconverted
_convert_lenient(self, value) ==
    Eval(_convert_factor(self, _convert_map(self,
            _convert_bit_offset(self, _convert_bit_mask(self, Ok(value))))), LAMBDA r :
        IF r.exc # "none" THEN Ok(value) ELSE r)

_convert(self, value) ==
    _convert_factor(self, _convert_map(self,
        _convert_bit_offset(self, _convert_bit_mask(self, Ok(value)))))

\* parse(json_path).find(event_data): the values at the path, none when a key
\* of the path is missing or the value there is no dict
jsonpath_find(json_path, event_data) ==
    Eval(GetPath(event_data, json_path), LAMBDA item :
        IF item.exc # "none" THEN <<>> ELSE <<item.val>>)

_find_value(self, event_data, json_path) ==
    Eval(jsonpath_find(json_path, event_data), LAMBDA all_match :
        IF all_match # <<>> THEN _convert(self, all_match[1]) ELSE Ok(PyNone))

get_value(self, event_data) == _find_value(self, event_data, self.value_path)

get_unit(self, event_data) ==
    IF py_bool(self.unit_path) THEN _find_value(self, event_data, self.unit_path.v)
    ELSE Ok(PyNone)

RfpSensorConfig(name, state, unit) == [name |-> name, state |-> state, unit |-> unit]

\* RfpSensorConfig.event_unit
event_unit(self, event_data) ==
    IF py_bool(event_data)
    THEN Eval(get_unit(self.state, event_data), LAMBDA u :
            IF u.exc # "none" THEN u
            ELSE IF py_bool(u.val) THEN u
            ELSE Ok(self.unit))
    ELSE Ok(self.unit)

RECURSIVE FirstNamed(_, _, _)
\* next((entry for entry in reg if entry.name == profile_name), None): the index
\* of the entry, 0 for None
FirstNamed(reg, profile_name, i) ==
    IF i > Len(reg) THEN 0
    ELSE IF PyStr(reg[i].name) = profile_name THEN i
    ELSE FirstNamed(reg, profile_name, i + 1)

get_platform_config(reg, profile_name, platform) ==
    IF ~py_bool(profile_name) THEN PyList(<<>>)
    ELSE Eval(FirstNamed(reg, profile_name, 1), LAMBDA i :
            IF i = 0 THEN PyList(<<>>)
            ELSE RfpPlatformConfigMap_get(reg[i].platforms, platform))

K_qualifier == <<113, 117, 97, 108, 105, 102, 105, 101, 114>>   \* "qualifier"
K_unit == <<117, 110, 105, 116>>                                \* "unit"
S_6 == <<54>>                            \* "6"
S_ON == <<79, 78>>                       \* "ON"
S_W == <<87>>                            \* "W"
S_kWh == <<107, 87, 104>>                \* "kWh"
S_closed == <<99, 108, 111, 115, 101, 100>>   \* "closed"
S_open == <<111, 112, 101, 110>>         \* "open"
S_sensor == <<115, 101, 110, 115, 111, 114>>   \* "sensor"

QualifierPath == <<K_frame, K_infos, K_qualifier>>   \* $.frame.infos.qualifier
UnitPath == <<K_frame, K_infos, K_unit>>             \* $.frame.infos.unit

\* value configs: mask and factor; a map; mask and offset; mask, map to numbers
\* and factor; a map to words and a factor; a unit path and no step; every
\* step set to a value that is false; a factor and a unit path
ValueConfigs ==
    <<JsonValueConfig(QualifierPath, PyNone, PyInt(1), PyNone, PyNone, PyFloat(100)),
      JsonValueConfig(QualifierPath, PyNone, PyNone, PyNone,
                      PyDict((S_0 :> S_closed) @@ (S_1 :> S_open)), PyNone),
      JsonValueConfig(QualifierPath, PyNone, PyInt(6), PyInt(1), PyNone, PyNone),
      JsonValueConfig(QualifierPath, PyNone, PyInt(1), PyNone,
                      PyDict((S_0 :> S_2) @@ (S_1 :> S_6)), PyFloat(100)),
      JsonValueConfig(QualifierPath, PyNone, PyNone, PyNone,
                      PyDict((S_0 :> S_closed) @@ (S_1 :> S_open)), PyFloat(100)),
      JsonValueConfig(QualifierPath, PyStr(UnitPath), PyNone, PyNone, PyNone, PyNone),
      JsonValueConfig(QualifierPath, PyNone, PyInt(0), PyInt(0), PyDict(<<>>), PyFloat(0)),
      JsonValueConfig(QualifierPath, PyStr(UnitPath), PyNone, PyNone, PyNone, PyFloat(100))>>

\* one sensor config per value config; the even ones have a static unit
SensorConfigs ==
    [j \in DOMAIN ValueConfigs |->
        RfpSensorConfig(S_sensor, ValueConfigs[j], IF j % 2 = 0 THEN PyStr(S_kWh) ELSE PyNone)]

\* a profile with sensors and an empty list of binary sensors, and a profile
\* that declares no platform
ExtractRegistry ==
    <<RfpDeviceProfile(<<65>>, RfPDeviceMatch(PyNone, PyStr(S_4), PyNone, PyNone),
                       RfpPlatformConfigMap(("sensor" :> PyList(SensorConfigs))
                                                @@ ("binary_sensor" :> PyList(<<>>)))),
      RfpDeviceProfile(<<66>>, RfPDeviceMatch(PyNone, PyStr(S_10), PyNone, PyNone),
                       RfpPlatformConfigMap(<<>>))>>

\* events whose infos have a qualifier or none, and a unit or none; and no event
ExtractEventDatas ==
    {EventData(S_X2D, S_4, infos) :
        infos \in DictsOver([k \in {K_qualifier, K_unit} |->
                                IF k = K_qualifier
                                THEN {PyStr(S_1), PyStr(S_2), PyStr(S_6), PyStr(S_ON), PyInt(5)}
                                ELSE {PyStr(S_W)}])}
    \cup {PyNone}

ProfileNames == {PyNone, PyStr(<<>>), PyStr(<<65>>), PyStr(<<66>>), PyStr(<<90>>)}
Platforms == {"sensor", "binary_sensor", "cover", "number"}

InitExtract ==
    /\ SupervisorIdle
    /\ receiver_protocols = PyNone
    /\ client_protocol = 0
    /\ conns = <<>>
    /\ disconnects = <<>>
    /\ raised = NoExc
    /\ nchunks = 0
    /\ wire = <<>>
    /\ pending = 0
    /\ device_events = <<>>
    /\ PlatformIdle
    /\ config = PyNone
    /\ device_ids = {}
    /\ entry_devices = <<>>
    /\ entry_redirect = <<>>
    /\ handled = <<>>
    /\ registry = ExtractRegistry
    /\ lookups = <<>>
    /\ packet \in ExtractEventDatas

\* registry.get_platform_config(profile_name, platform)
GetPlatformConfig(profile_name, platform) ==
    /\ Len(lookups) < MaxExtracts
    /\ lookups' = Append(lookups, [op |-> "get_platform_config", profile_name |-> profile_name,
                                   platform |-> platform,
                                   result |-> Ok(get_platform_config(registry, profile_name,
                                                                     platform))])
    /\ raised' = NoExc
    /\ UNCHANGED <<clientVars, supervisorVars, adapterVars, platformVars, gatewayVars, registry, packet>>

\* the sensor configs of profile i
SensorsOf(i) == get_platform_config(registry, PyStr(registry[i].name), "sensor")

\* registry.get_platform_config(name, "sensor")[j].state.get_value(packet)
GetValue(i, j) ==
    /\ Len(lookups) < MaxExtracts
    /\ packet # PyNone
    /\ py_bool(SensorsOf(i))
    /\ j \in DOMAIN SensorsOf(i).v
    /\ \E r \in {get_value(SensorsOf(i).v[j].state, packet)} :
          /\ lookups' = Append(lookups, [op |-> "get_value", profile |-> i, config |-> j,
                                         event_data |-> packet, result |-> r])
          /\ raised' = IF r.exc = "none" THEN NoExc ELSE Exc("get_value", r.exc)
    /\ UNCHANGED <<clientVars, supervisorVars, adapterVars, platformVars, gatewayVars, registry, packet>>

\* registry.get_platform_config(name, "sensor")[j].event_unit(packet)
EventUnit(i, j) ==
    /\ Len(lookups) < MaxExtracts
    /\ py_bool(SensorsOf(i))
    /\ j \in DOMAIN SensorsOf(i).v
    /\ \E r \in {event_unit(SensorsOf(i).v[j], packet)} :
          /\ lookups' = Append(lookups, [op |-> "event_unit", profile |-> i, config |-> j,
                                         event_data |-> packet, result |-> r])
          /\ raised' = IF r.exc = "none" THEN NoExc ELSE Exc("event_unit", r.exc)
    /\ UNCHANGED <<clientVars, supervisorVars, adapterVars, platformVars, gatewayVars, registry, packet>>

NextExtract ==
    \/ \E profile_name \in ProfileNames : \E platform \in Platforms :
          GetPlatformConfig(profile_name, platform)
    \/ \E i \in DOMAIN registry : \E j \in DOMAIN ValueConfigs : GetValue(i, j)
    \/ \E i \in DOMAIN registry : \E j \in DOMAIN ValueConfigs : EventUnit(i, j)

SpecExtract == InitExtract /\ [][NextExtract]_vars

----------------------------------------------------------------------------
(* gateway.py, connection supervision: _connect_gateway with its retry timer *)
(* and _reconnect_gateway.  The first _connect_gateway task is the one of    *)
(* async_setup.  reconnect_interval is the delay of the timer: the model     *)
(* keeps the order of the steps, not their times.                            *)

MaxFailures == 2        \* connection attempts that fail before the port opens
MaxNotifications == 1   \* disconnect notifications the gateway receives

\* _reconnect_gateway that starts a new connection whatever the state of hass
_reconnect_gateway_always(state, sigs, tasks) ==
    [signals |-> Append(sigs, FALSE), created |-> tasks + 1]

\* Gateway._reconnect_gateway: the signals dispatched and the tasks created
\* after the call
_reconnect_gateway(state, sigs, tasks) ==
    [signals |-> Append(sigs, FALSE),
     created |-> IF state # "stopping" THEN tasks + 1 ELSE tasks]

\* the except branch of _connect_gateway without the reconnect job
_connect_gateway_except_once(sigs, jobs) ==
    [signals |-> Append(sigs, FALSE), timers |-> jobs]

\* the except branch of _connect_gateway: availability False, then
\* async_call_later(reconnect_interval, reconnect_job); the signals dispatched
\* and the jobs scheduled after it
_connect_gateway_except(sigs, jobs) ==
    [signals |-> Append(sigs, FALSE), timers |-> jobs + 1]

InitSupervise ==
    /\ receiver_protocols \in ReceiverConfigs
    /\ client_protocol = 0
    /\ conns = <<>>
    /\ disconnects = <<>>
    /\ raised = NoExc
    /\ nchunks = 0
    /\ wire = <<>>
    /\ pending = 0
    /\ device_events = <<>>
    /\ PlatformIdle
    /\ config = PyNone
    /\ device_ids = {}
    /\ entry_devices = <<>>
    /\ entry_redirect = <<>>
    /\ handled = <<>>
    /\ registry = <<>>
    /\ lookups = <<>>
    /\ packet = PyNone
    /\ hass_state = "running"
    /\ created = 1
    /\ attempts = 0
    /\ timers = 0
    /\ signals = <<>>
    /\ failures = 0

superviseRest ==
    <<receiver_protocols, disconnects, nchunks, wire, adapterVars, platformVars, gatewayVars, profileVars>>

\* a _connect_gateway task starts: client.connect() calls
\* create_serial_connection and waits for it
ConnectGatewayStart ==
    /\ attempts < created
    /\ attempts' = attempts + 1
    /\ pending' = pending + 1
    /\ raised' = NoExc
    /\ UNCHANGED <<client_protocol, conns, hass_state, created, timers, signals, failures,
                   superviseRest>>

\* create_serial_connection returns: self._protocol is set and _connect_gateway
\* dispatches availability True
ConnectGatewayDone ==
    /\ pending > 0
    /\ pending' = pending - 1
    /\ conns' = Append(conns, NewProtocol(_receiver_script(receiver_protocols)))
    /\ client_protocol' = Len(conns) + 1
    /\ signals' = Append(signals, TRUE)
    /\ raised' = NoExc
    /\ UNCHANGED <<hass_state, created, attempts, timers, failures, superviseRest>>

\* client.connect() ends with `exc` (an error of create_serial_connection, or
\* the cancellation by the timeout): the except branch of _connect_gateway
ConnectGatewayFailed(exc) ==
    /\ pending > 0
    /\ failures < MaxFailures
    /\ _connect_gateway(asyncio_timeout(connect_except(exc))) = "ConfigEntryNotReady"
    /\ pending' = pending - 1
    /\ failures' = failures + 1
    /\ \E r \in {_connect_gateway_except(signals, timers)} :
          signals' = r.signals /\ timers' = r.timers
    /\ raised' = ConnectRaises(connect_except(exc))
    /\ UNCHANGED <<client_protocol, conns, hass_state, created, attempts, superviseRest>>

\* the reconnect job runs after reconnect_interval: _reconnect_gateway(now)
ReconnectJob ==
    /\ timers > 0
    /\ timers' = timers - 1
    /\ \E r \in {_reconnect_gateway(hass_state, signals, created)} :
          signals' = r.signals /\ created' = r.created
    /\ raised' = NoExc
    /\ UNCHANGED <<client_protocol, conns, pending, hass_state, attempts, failures,
                   superviseRest>>

\* the client's disconnect_callback is called: _reconnect_gateway()
DisconnectNotification ==
    /\ Len(disconnects) < MaxNotifications
    /\ disconnects' = Append(disconnects, [conn |-> client_protocol, args |-> <<>>])
    /\ \E r \in {_reconnect_gateway(hass_state, signals, created)} :
          signals' = r.signals /\ created' = r.created
    /\ raised' = NoExc
    /\ UNCHANGED <<receiver_protocols, client_protocol, conns, pending, nchunks, wire,
                   hass_state, attempts, timers, failures,
                   adapterVars, platformVars, gatewayVars, profileVars>>

\* Home Assistant begins to stop
HassStop ==
    /\ hass_state = "running"
    /\ hass_state' = "stopping"
    /\ raised' = NoExc
    /\ UNCHANGED <<client_protocol, conns, pending, created, attempts, timers, signals,
                   failures, superviseRest>>

\* a reconnect job (cancel_on_shutdown) is cancelled while hass stops
ReconnectJobCancelled ==
    /\ hass_state = "stopping"
    /\ timers > 0
    /\ timers' = timers - 1
    /\ raised' = NoExc
    /\ UNCHANGED <<client_protocol, conns, pending, hass_state, created, attempts, signals,
                   failures, superviseRest>>

ConnectErrors == {"SerialException", "OSError", "CancelledError"}

NextSupervise ==
    \/ ConnectGatewayStart
    \/ ConnectGatewayDone
    \/ \E exc \in ConnectErrors : ConnectGatewayFailed(exc)
    \/ ReconnectJob
    \/ DisconnectNotification
    \/ HassStop
    \/ ReconnectJobCancelled

SpecSupervise == InitSupervise /\ [][NextSupervise]_vars

\* tasks and timers of the event loop run, and a pending connect() ends
SpecSuperviseFair ==
    /\ SpecSupervise
    /\ WF_vars(ConnectGatewayStart)
    /\ WF_vars(ConnectGatewayDone \/ \E exc \in ConnectErrors : ConnectGatewayFailed(exc))
    /\ WF_vars(ReconnectJob)

----------------------------------------------------------------------------
(* The gateway and its client together: the connections the supervision      *)
(* opens go through connection_made, data_received, an error of the          *)
(* transport or a close, and connection_lost, whose disconnect callback is   *)
(* RfPlayerClient._disconnect_callback_internal with Gateway._reconnect_gateway *)
(* behind it.                                                                *)

\* what the serial line delivers over the session, as the chunks the transports
\* read: ZIA--o (a line cut before its end) and k\n\r (an end of line)
SessionStreams ==
    { << <<90, 73, 65, 45, 45, 111>>, <<107, 10, 13>> >>,
      << <<107, 10, 13>>, <<90, 73, 65, 45, 45, 111>> >> }

InitSession ==
    /\ receiver_protocols = PyNone
    /\ client_protocol = 0
    /\ conns = <<>>
    /\ disconnects = <<>>
    /\ raised = NoExc
    /\ nchunks = 0
    /\ wire \in SessionStreams
    /\ pending = 0
    /\ device_events = <<>>
    /\ PlatformIdle
    /\ config = PyNone
    /\ device_ids = {}
    /\ entry_devices = <<>>
    /\ entry_redirect = <<>>
    /\ handled = <<>>
    /\ registry = <<>>
    /\ lookups = <<>>
    /\ packet = PyNone
    /\ hass_state = "running"
    /\ created = 1
    /\ attempts = 0
    /\ timers = 0
    /\ signals = <<>>
    /\ failures = 0

\* Gateway.async_unload: client.close() in the executor
AsyncUnload ==
    /\ hass_state = "running"
    /\ Close

\* Home Assistant begins to stop and fires EVENT_HOMEASSISTANT_STOP: the
\* listener of async_setup (listen_once) calls client.close()
HomeAssistantStop ==
    /\ hass_state = "running"
    /\ hass_state' = "stopping"
    /\ conns' = close(client_protocol, conns)
    /\ client_protocol' = 0
    /\ raised' = NoExc
    /\ UNCHANGED <<pending, created, attempts, timers, signals, failures, superviseRest>>

\* RfplayerProtocol.connection_lost(exc) of a connection of the gateway's client:
\* self.disconnect_callback(exc) is _disconnect_callback_internal, whose body is
\* self.close(); self.disconnect_callback(), the latter being
\* Gateway._reconnect_gateway
GatewayConnectionLost(c) ==
    /\ c \in DOMAIN conns
    /\ conns[c].state = "closing"
    /\ LET args == <<conns[c].lost_exc>>
           cs == [conns EXCEPT ![c].state = "closed",
                               ![c].lostEvents = Append(@, conns[c].lost_exc)]
       IN  IF Len(args) # DisconnectCallbackParams
           THEN /\ raised' = Exc("connection_lost", "TypeError")
                /\ conns' = cs
                /\ UNCHANGED <<client_protocol, disconnects, signals, created>>
           ELSE /\ conns' = close(client_protocol, cs)
                /\ client_protocol' = 0
                /\ disconnects' = Append(disconnects, [conn |-> c, args |-> <<>>])
                /\ \E r \in {_reconnect_gateway(hass_state, signals, created)} :
                      signals' = r.signals /\ created' = r.created
                /\ raised' = NoExc
    /\ UNCHANGED <<receiver_protocols, nchunks, wire, pending, hass_state, attempts, timers,
                   failures, adapterVars, platformVars, gatewayVars, profileVars>>

\* the transport of connection c reads what the serial line holds
SessionDataReceived(c) ==
    /\ c \in DOMAIN conns
    /\ conns[c].state = "open"
    /\ wire # <<>>
    /\ nchunks' = nchunks + 1
    /\ Receive(c, Head(wire))
    /\ wire' = Tail(wire)
    /\ UNCHANGED <<receiver_protocols, client_protocol, disconnects, pending,
                 nonClientVars>>

\* every connect() of the session succeeds: the attempts that fail and their
\* reconnect jobs are those of SpecSupervise
NextSession ==
    \/ ConnectGatewayStart
    \/ ConnectGatewayDone
    \/ DisconnectNotification
    \/ AsyncUnload
    \/ HomeAssistantStop
    \/ \E c \in DOMAIN conns : ConnectionMade(c)
    \/ \E c \in DOMAIN conns : TransportError(c)
    \/ \E c \in DOMAIN conns : GatewayConnectionLost(c)
    \/ \E c \in DOMAIN conns : SessionDataReceived(c)

SpecSession == InitSession /\ [][NextSession]_vars

----------------------------------------------------------------------------
(* The set-up of __init__.py: the event handler of async_setup_internal and  *)
(* async_setup_platform_entry for one platform, with the listener it         *)
(* connects to the dispatcher when automatic_add is on.  device_ids is the   *)
(* set of async_setup_internal, platform_device_ids that of the platform.    *)

\* json.dumps of None and of a str that needs no escape
json_dumps(value) ==
    IF value = PyNone THEN <<110, 117, 108, 108>> ELSE <<34>> \o value.v \o <<34>>

_build_device_info_from_event(event) ==
    [protocol |-> event.device.protocol,
     address |-> event.device.address,
     event_data |-> PyStr(json_dumps(event.data))]

\* device_info.get(key)
dict_get(device_info, key) ==
    IF key \in DOMAIN device_info THEN device_info[key] ELSE PyNone

\* event.device_id of _build_event_from_device_info(device_info)
InfoDeviceId(device_info) ==
    device_id(RfDeviceId(device_info.protocol, device_info.address,
                         dict_get(device_info, "group_id"), dict_get(device_info, "model")))

\* _update that does not look at device_ids
_update_unguarded(ids, id, platform_config) ==
    IF ~py_bool(platform_config) THEN [device_ids |-> ids, built |-> FALSE]
    ELSE [device_ids |-> ids \cup {id}, built |-> TRUE]

\* the listener _update of async_setup_platform_entry for an event of device
\* `id` whose profile gives `platform_config`: the device_ids after it, and
\* whether the builder was called
_update(ids, id, platform_config) ==
    IF id \in ids THEN [device_ids |-> ids, built |-> FALSE]
    ELSE IF ~py_bool(platform_config) THEN [device_ids |-> ids, built |-> FALSE]
    ELSE [device_ids |-> ids \cup {id}, built |-> TRUE]

\* entities after one more call of the builder for device id
Built(ents, id) ==
    IF id \in DOMAIN ents THEN [ents EXCEPT ![id] = @ + 1] ELSE (id :> 1) @@ ents

RECURSIVE LoadDevices(_, _, _, _)
\* the loop of async_setup_platform_entry over the devices of the entry, those
\* of `supported` having a platform config: device_ids and the builder calls
\* after it, or the AssertionError of a key that is not the device id
LoadDevices(devices, todo, supported, acc) ==
    IF todo = {} \/ acc.exc # "none" THEN acc
    ELSE Eval(CHOOSE id \in todo : TRUE, LAMBDA id :
            LoadDevices(devices, todo \ {id}, supported,
                IF id \notin supported THEN acc
                ELSE IF id # InfoDeviceId(devices[id]) THEN [acc EXCEPT !.exc = "AssertionError"]
                ELSE IF id \in acc.device_ids THEN acc
                ELSE [acc EXCEPT !.device_ids = @ \cup {id}, !.entities = Built(@, id)]))

\* entry data of the set-up: the devices are keyed by their device id
SetupConfigs ==
    [automatic_add : BOOLEAN,
     devices : {<<>>, ID_X2D_2 :> DeviceInfo(S_X2D, S_2)}]

\* what get_platform_config returns for an event: no config, or one
PlatformConfigs == {PyList(<<>>), PyList(<<S_switch>>)}

\* the state after async_setup_entry: the gateway's set is empty, the platform
\* has loaded the configured devices that have a platform config
InitSetup ==
    /\ SupervisorIdle
    /\ receiver_protocols = PyNone
    /\ client_protocol = 0
    /\ conns = <<>>
    /\ disconnects = <<>>
    /\ raised = NoExc
    /\ nchunks = 0
    /\ wire = <<>>
    /\ pending = 0
    /\ device_events = <<>>
    /\ config \in SetupConfigs
    /\ device_ids = {}
    /\ entry_devices = config.devices
    /\ entry_redirect = <<>>
    /\ handled = <<>>
    /\ registry = <<>>
    /\ lookups = <<>>
    /\ packet = PyNone
    /\ \E supported \in SUBSET DOMAIN config.devices :
          \E r \in {LoadDevices(config.devices, DOMAIN config.devices, supported,
                                [device_ids |-> {}, entities |-> <<>>, exc |-> "none"])} :
              /\ platform_device_ids = r.device_ids
              /\ entities = r.entities
    /\ is_on = [switch |-> "None", binary_sensor |-> "None"]
    /\ applied = <<>>

\* async_handle_receive(event) of async_setup_internal, and the listener of
\* the platform when the event is dispatched
SetupHandleReceive(event, platform_config) ==
    /\ Len(handled) < MaxReceives
    /\ raised' = NoExc
    /\ IF device_id(event.device) \notin device_ids /\ ~config.automatic_add
       THEN /\ handled' = Append(handled, [received |-> event, config |-> config,
                                           dispatched |-> <<>>])
            /\ UNCHANGED <<entry_devices, device_ids, platformVars>>
       ELSE /\ IF device_id(event.device) \notin device_ids
               THEN /\ entry_devices' = (device_id(event.device) :>
                                            _build_device_info_from_event(event)) @@ entry_devices
                    /\ device_ids' = device_ids \cup {device_id(event.device)}
               ELSE UNCHANGED <<entry_devices, device_ids>>
            /\ handled' = Append(handled, [received |-> event, config |-> config,
                                           dispatched |-> <<event>>])
            /\ IF config.automatic_add
               THEN \E r \in {_update(platform_device_ids, device_id(event.device),
                                      platform_config)} :
                       /\ platform_device_ids' = r.device_ids
                       /\ entities' = IF r.built THEN Built(entities, device_id(event.device))
                                      ELSE entities
               ELSE UNCHANGED platformVars
    /\ UNCHANGED <<clientVars, supervisorVars, adapterVars, profileVars, config, entry_redirect,
                   is_on, applied>>

NextSetup ==
    \E event \in GatewayEvents : \E platform_config \in PlatformConfigs :
        SetupHandleReceive(event, platform_config)

SpecSetup == InitSetup /\ [][NextSetup]_vars

----------------------------------------------------------------------------
(* The switch and the binary sensor entities: _apply_event on the status     *)
(* value their config extracts from an event.                                *)

MaxApplies == 2      \* events applied to the entities

S_all_on == <<97, 108, 108, 95, 111, 110>>           \* "all_on"
S_all_off == <<97, 108, 108, 95, 111, 102, 102>>     \* "all_off"

COMMAND_ON_LIST ==
    { <<116, 114, 117, 101>>, <<49>>, <<111, 110>>, S_all_on }          \* true 1 on all_on
COMMAND_OFF_LIST ==
    { <<102, 97, 108, 115, 101>>, <<48>>, <<111, 102, 102>>, S_all_on } \* false 0 off all_on
COMMAND_GROUP_LIST == { S_all_on, S_all_off }

\* status.lower() if status else None
command_of(status) == IF py_bool(status) THEN PyStr(str_lower(status.v)) ELSE PyNone

\* MyRfPlayerSwitch._apply_event on the status value: _attr_is_on after it and
\* the value returned
switch_apply_event(current, status) ==
    IF command_of(status) # PyNone /\ command_of(status).v \in COMMAND_ON_LIST
    THEN [is_on |-> "True", result |-> TRUE]
    ELSE IF command_of(status) # PyNone /\ command_of(status).v \in COMMAND_OFF_LIST
    THEN [is_on |-> "False", result |-> TRUE]
    ELSE [is_on |-> current, result |-> FALSE]

\* MyRfPlayerBinarySensor._apply_event on the state value
binary_sensor_apply_event(current, state) ==
    IF command_of(state) # PyNone /\ command_of(state).v \in COMMAND_ON_LIST
    THEN [is_on |-> "True", result |-> TRUE]
    ELSE IF command_of(state) # PyNone /\ command_of(state).v \in COMMAND_OFF_LIST
    THEN [is_on |-> "False", result |-> TRUE]
    ELSE [is_on |-> current, result |-> FALSE]

\* value.lower() in COMMAND_GROUP_LIST if value else False
_group_event(value) == py_bool(value) /\ str_lower(value.v) \in COMMAND_GROUP_LIST

\* the values get_value extracts: None, "", ON, off, 1, 0, true, toggle, ALL_ON,
\* all_on, ALL_OFF, all_off
StatusValues ==
    {PyNone, PyStr(<<>>), PyStr(S_ON), PyStr(<<111, 102, 102>>), PyStr(S_1), PyStr(<<48>>),
     PyStr(<<116, 114, 117, 101>>), PyStr(<<116, 111, 103, 103, 108, 101>>),
     PyStr(<<65, 76, 76, 95, 79, 78>>), PyStr(S_all_on),
     PyStr(<<65, 76, 76, 95, 79, 70, 70>>), PyStr(S_all_off)}

InitEntity ==
    /\ receiver_protocols = PyNone
    /\ client_protocol = 0
    /\ conns = <<>>
    /\ disconnects = <<>>
    /\ raised = NoExc
    /\ nchunks = 0
    /\ wire = <<>>
    /\ pending = 0
    /\ device_events = <<>>
    /\ PlatformIdle
    /\ GatewayIdle

SwitchApplyEvent(status) ==
    /\ Len(applied) < MaxApplies
    /\ \E r \in {switch_apply_event(is_on.switch, status)} :
          /\ is_on' = [is_on EXCEPT !.switch = r.is_on]
          /\ applied' = Append(applied, [entity |-> "switch", status |-> status,
                                         result |-> r.result, is_on |-> r.is_on])
    /\ raised' = NoExc
    /\ UNCHANGED <<clientVars, supervisorVars, adapterVars, gatewayVars, profileVars,
                   platform_device_ids, entities>>

BinarySensorApplyEvent(state) ==
    /\ Len(applied) < MaxApplies
    /\ \E r \in {binary_sensor_apply_event(is_on.binary_sensor, state)} :
          /\ is_on' = [is_on EXCEPT !.binary_sensor = r.is_on]
          /\ applied' = Append(applied, [entity |-> "binary_sensor", status |-> state,
                                         result |-> r.result, is_on |-> r.is_on])
    /\ raised' = NoExc
    /\ UNCHANGED <<clientVars, supervisorVars, adapterVars, gatewayVars, profileVars,
                   platform_device_ids, entities>>

NextEntity ==
    \/ \E status \in StatusValues : SwitchApplyEvent(status)
    \/ \E state \in StatusValues : BinarySensorApplyEvent(state)

SpecEntity == InitEntity /\ [][NextEntity]_vars

----------------------------------------------------------------------------
(* Properties *)

Header(line) == SubSeq(line, 1, 5)
Body(line) == SubSeq(line, 6, Len(line))
CountLF(text) == Cardinality({i \in DOMAIN text : text[i] = 10})
ZIA_SIMPLE == <<90, 73, 65, 45, 45>>   \* "ZIA--"
ZIA_JSON == <<90, 73, 65, 51, 51>>     \* "ZIA33"

\* C1: feeding a byte stream in chunks causes the same sequence of
\* event_callback invocations as feeding the whole stream in one data_received
\* call to a protocol with an empty buffer.
C1_ChunkInvariance ==
    \A c \in DOMAIN conns :
        conns[c].rawEvents
            = Flatten(data_received(PORT, <<>>, conns[c].received).log, "raw")

\* C2: with the client's wiring every packet handed to the protocol's
\* event_callback results in exactly one invocation of the client's
\* event_callback with an RfDeviceEvent for that packet, in arrival order.
C2_EveryPacketDelivered ==
    \A c \in DOMAIN conns :
        /\ Len(conns[c].devEvents) = Len(conns[c].rawEvents)
        /\ \A i \in DOMAIN conns[c].devEvents :
              conns[c].devEvents[i].data.v = conns[c].rawEvents[i].v

\* the client's disconnect_callback invocations caused by connection c
DisconnectsOf(c) == SelectSeq(disconnects, LAMBDA d : d.conn = c)

\* C3: every connection_lost of a connection results in exactly one invocation
\* of the client's disconnect_callback, carrying the exception (None for a
\* graceful close).
C3_DisconnectNotifiedOnce ==
    \A c \in DOMAIN conns :
        /\ Len(DisconnectsOf(c)) = Len(conns[c].lostEvents)
        /\ \A i \in DOMAIN DisconnectsOf(c) :
              DisconnectsOf(c)[i].args = <<conns[c].lostEvents[i]>>

\* C4: once a connection closed by close() has been reported lost, however
\* often close() was called, its transport was closed once and the client's
\* disconnect_callback was invoked exactly once; close() never raises.
C4_CloseIdempotent ==
    /\ raised.op # "close"
    /\ \A c \in DOMAIN conns :
          (conns[c].state = "closed" /\ conns[c].lost_exc = "None")
              => (conns[c].close_calls = 1 /\ Len(DisconnectsOf(c)) = 1)

\* C5: a ZIA33 line whose body is no JSON raises nothing out of data_received
\* and the lines after it in the same call are handled during that call, so no
\* complete line stays in the buffer.
C5_BadJsonDropped ==
    \A c \in DOMAIN conns :
        /\ \A i \in DOMAIN conns[c].lines : conns[c].lines[i].exc = "none"
        /\ raised.exc # "JSONDecodeError"
        /\ ~HasNewline(conns[c].buffer)

C7_HeaderDispatch ==
    \A c \in DOMAIN conns : \A i \in DOMAIN conns[c].lines :
        LET e == conns[c].lines[i] IN
        Len(e.line) > 5 =>
            /\ Header(e.line) = ZIA_SIMPLE => e.raw = <<PyStr(Body(e.line))>>
            /\ (Header(e.line) = ZIA_JSON /\ json_loads(Body(e.line)).ok)
                  => e.raw = <<json_loads(Body(e.line)).val>>
            /\ e.line = <<90, 73, 65, 45, 45, 111, 107>>
                  => e.raw = <<PyStr(<<111, 107>>)>>
            /\ e.line = <<90, 73, 65, 51, 51, 123, 34, 97, 34, 58, 49, 125>>
                  => e.raw = <<PyDict(<<97>> :> PyInt(1))>>

\* the lines ZIA--ok and ZIA33{"a":1} were both dispatched
C7_Witness ==
    \E c \in DOMAIN conns : \E i, j \in DOMAIN conns[c].lines :
        /\ conns[c].lines[i].line = <<90, 73, 65, 45, 45, 111, 107>>
        /\ conns[c].lines[i].raw # <<>>
        /\ conns[c].lines[j].line = <<90, 73, 65, 51, 51, 123, 34, 97, 34, 58, 49, 125>>
        /\ conns[c].lines[j].raw # <<>>

\* C8: a line longer than 5 characters whose header is neither ZIA-- nor ZIA33
\* causes no event and no error, and handling goes on with the lines after it.
C8_OtherHeadersDropped ==
    \A c \in DOMAIN conns : \A i \in DOMAIN conns[c].lines :
        LET e == conns[c].lines[i] IN
        (Len(e.line) > 5 /\ Header(e.line) \notin {ZIA_SIMPLE, ZIA_JSON}) =>
            /\ e.raw = <<>>
            /\ e.dev = <<>>
            /\ e.exc = "none"
            /\ i = Len(conns[c].lines) => ~HasNewline(conns[c].buffer)

\* a ZIA00 line and a line with an unknown header were taken, the latter
\* followed by a line that was dispatched
C8_Witness ==
    \E c \in DOMAIN conns : \E i, j \in DOMAIN conns[c].lines :
        /\ Len(conns[c].lines[i].line) > 5
        /\ Header(conns[c].lines[i].line) = <<90, 73, 65, 48, 48>>
        /\ Len(conns[c].lines[j].line) > 5
        /\ Header(conns[c].lines[j].line) = <<90, 73, 66, 45, 45>>

\* C9: a line of 5 characters or less after stripping causes no event and no
\* error whatever its header, handling goes on after it, and every newline
\* received yields at most one line, so a dropped line is never handled again.
C9_ShortLinesDropped ==
    \A c \in DOMAIN conns :
        /\ \A i \in DOMAIN conns[c].lines :
              LET e == conns[c].lines[i] IN
              Len(e.line) <= 5 =>
                  /\ e.raw = <<>>
                  /\ e.exc = "none"
                  /\ i = Len(conns[c].lines) => ~HasNewline(conns[c].buffer)
        /\ Len(conns[c].lines) + CountLF(conns[c].buffer) <= CountLF(conns[c].received)

\* the bare header ZIA33, stripped of blanks, and an empty line were taken
C9_Witness ==
    \E c \in DOMAIN conns : \E i, j \in DOMAIN conns[c].lines :
        /\ conns[c].lines[i].line = ZIA_JSON
        /\ conns[c].lines[i].rawline # ZIA_JSON
        /\ conns[c].lines[j].line = <<>>

\* ZIA++FORMAT JSON\n\r
FRAME_FORMAT_JSON ==
    <<90, 73, 65, 43, 43, 70, 79, 82, 77, 65, 84, 32, 74, 83, 79, 78, 10, 13>>
\* ZIA++RECEIVER -* +X2D +RTS\n\r
FRAME_RECEIVER ==
    <<90, 73, 65, 43, 43, 82, 69, 67, 69, 73, 86, 69, 82, 32, 45, 42, 32, 43,
      88, 50, 68, 32, 43, 82, 84, 83, 10, 13>>
\* ZIA++STATUS\n\r
FRAME_STATUS == <<90, 73, 65, 43, 43, 83, 84, 65, 84, 85, 83, 10, 13>>

ExpectedInitWrites ==
    IF receiver_protocols = PyList(<< <<88, 50, 68>>, <<82, 84, 83>> >>)
    THEN <<FRAME_FORMAT_JSON, FRAME_RECEIVER>>
    ELSE <<FRAME_FORMAT_JSON>>

C13_SerialErrorTyped ==
    [][(pending' < pending /\ Len(conns') = Len(conns) /\ raised'.cause # "TimeoutError") =>
          /\ raised' = ExcFrom("_connect_gateway", "ConfigEntryNotReady", "RfPlayerException")
          /\ client_protocol' = client_protocol
          /\ conns' = conns
          /\ disconnects' = disconnects]_vars

\* opening the serial port failed on a client that never connected
C13_Witness ==
    /\ raised = ExcFrom("_connect_gateway", "ConfigEntryNotReady", "RfPlayerException")
    /\ client_protocol = 0
    /\ conns = <<>>
    /\ pending = 0

\* C14: connected (self._protocol is not None) is false initially and once the
\* transport of the client's protocol has reported its connection loss; it is
\* true after connect() returns and false after close().
C14_ConnectedFollowsSession ==
    /\ conns = <<>> => client_protocol = 0
    /\ \A c \in DOMAIN conns : conns[c].state = "closed" => client_protocol # c


\* the infos and the header of the packet a device event was built from
InfosOf(e) == e.data.v[K_frame].v[K_infos].v
HeaderOf(e) == e.data.v[K_frame].v[K_header].v
FromPacket(e) == e.data.t = "JsonPacketType"

\* C15: the address of the device of a structured packet is the value of id if
\* frame.infos has it, else of id_channel, else of adr_channel, else 'unknown';
\* its protocol is frame.header.protocolMeaning; every packet gives an event.
C15_AddressPriority ==
    /\ raised = NoExc
    /\ \A i \in DOMAIN device_events :
          FromPacket(device_events[i]) =>
              /\ device_events[i].device.address =
                     IF K_id \in DOMAIN InfosOf(device_events[i])
                     THEN InfosOf(device_events[i])[K_id]
                     ELSE IF K_id_channel \in DOMAIN InfosOf(device_events[i])
                     THEN InfosOf(device_events[i])[K_id_channel]
                     ELSE IF K_adr_channel \in DOMAIN InfosOf(device_events[i])
                     THEN InfosOf(device_events[i])[K_adr_channel]
                     ELSE PyStr(UNKNOWN_INFO)
              /\ device_events[i].device.protocol = HeaderOf(device_events[i])[K_protocolMeaning]

\* a packet with id, id_channel and adr_channel gave the address of id
C15_Witness ==
    \E i \in DOMAIN device_events :
        /\ FromPacket(device_events[i])
        /\ {K_id, K_id_channel, K_adr_channel} \subseteq DOMAIN InfosOf(device_events[i])
        /\ device_events[i].device.address = PyStr(S_1)

\* C16: the model of the device of a structured packet is the value of
\* id_PHYMeaning if frame.infos has it, else of subTypeMeaning, else 'unknown',
\* where a value that is 'on' or 'off' in any letter case becomes 'switch' and
\* every other value is kept.
C16_ModelPriority ==
    \A i \in DOMAIN device_events :
        FromPacket(device_events[i]) =>
            \E raw \in {IF K_id_PHYMeaning \in DOMAIN InfosOf(device_events[i])
                         THEN InfosOf(device_events[i])[K_id_PHYMeaning]
                         ELSE IF K_subTypeMeaning \in DOMAIN InfosOf(device_events[i])
                         THEN InfosOf(device_events[i])[K_subTypeMeaning]
                         ELSE PyStr(UNKNOWN_INFO)} :
                device_events[i].device.model =
                    IF raw \in {PyStr(S_On), PyStr(S_OFF)} THEN PyStr(S_switch) ELSE raw

\* a packet whose id_PHYMeaning is "On" gave the model "switch"
C16_Witness ==
    \E i \in DOMAIN device_events :
        /\ FromPacket(device_events[i])
        /\ K_id_PHYMeaning \in DOMAIN InfosOf(device_events[i])
        /\ InfosOf(device_events[i])[K_id_PHYMeaning] = PyStr(S_On)
        /\ device_events[i].device.model = PyStr(S_switch)

\* the text of the values the inputs hold
TextOf(value) == IF value = PyInt(17) THEN <<49, 55>> ELSE value.v

C18_EventNotMutated ==
    \A i \in DOMAIN handled :
        \A j \in DOMAIN handled[i].dispatched :
            handled[i].dispatched[j].device = handled[i].received.device


\* the call returned True
IsTrue(r) == r.exc = "none" /\ r.val

\* the packet has the field at `keys` and the value there satisfies the rule's
\* regex
FieldMatchesRegex(event_data, keys, pattern) ==
    /\ GetPath(event_data, keys).exc = "none"
    /\ IsTrue(re_match(pattern.v, GetPath(event_data, keys).val))

\* the packet has the field at `keys` and the value there is the rule's
FieldEquals(event_data, keys, value) ==
    /\ GetPath(event_data, keys).exc = "none"
    /\ GetPath(event_data, keys).val = value

\* every field the rule has matches the packet
RuleMatches(event_data, m) ==
    /\ m.protocol # PyNone =>
           FieldMatchesRegex(event_data, <<K_frame, K_header, K_protocolMeaning>>, m.protocol)
    /\ FieldEquals(event_data, <<K_frame, K_header, K_infoType>>, m.info_type)
    /\ m.sub_type # PyNone => FieldEquals(event_data, <<K_frame, K_infos, K_subType>>, m.sub_type)
    /\ m.id_phy # PyNone =>
           FieldMatchesRegex(event_data, <<K_frame, K_infos, K_id_PHY>>, m.id_phy)

\* C19: get_profile_name_from_event returns the name of the profile of lowest
\* index among those whose rule matches the packet, and None when no rule
\* matches.
C19_FirstMatchWins ==
    \A n \in DOMAIN lookups :
        lookups[n].op = "get_profile_name_from_event" =>
            lookups[n].result =
                IF \E i \in DOMAIN registry : RuleMatches(lookups[n].event_data, registry[i].match)
                THEN Ok(PyStr(registry[SetMin({i \in DOMAIN registry :
                         RuleMatches(lookups[n].event_data, registry[i].match)})].name))
                ELSE Ok(PyNone)

\* C20: _event_is_matching returns True exactly when every field the rule has
\* matches the packet: the protocol regex and protocolMeaning, info_type and
\* infoType, sub_type and subType, the id_phy regex and id_PHY; a field the rule
\* does not have is not looked at.
C20_RuleMatchesIff ==
    \A n \in DOMAIN lookups :
        lookups[n].op = "_event_is_matching" =>
            (IsTrue(lookups[n].result)
                <=> RuleMatches(lookups[n].event_data, registry[lookups[n].profile].match))

\* the rule X2D / 4 / sub type 0 matched a packet that has no id_PHY
C20_Witness ==
    \E n \in DOMAIN lookups :
        /\ lookups[n].op = "_event_is_matching"
        /\ IsTrue(lookups[n].result)
        /\ registry[lookups[n].profile].match.sub_type = PyStr(S_0)
        /\ GetPath(lookups[n].event_data, <<K_frame, K_infos, K_id_PHY>>).exc = "KeyError"


\* C21: a rule that names a field the packet lacks is a non-match:
\* _event_is_matching returns False for it and raises nothing, and
\* get_profile_name_from_event raises nothing.
C21_MissingFieldIsNonMatch ==
    \A n \in DOMAIN lookups :
        lookups[n].op \in {"_event_is_matching", "get_profile_name_from_event"} =>
            /\ lookups[n].result.exc = "none"
            /\ (lookups[n].op = "_event_is_matching"
                  /\ ~RuleMatches(lookups[n].event_data, registry[lookups[n].profile].match))
                   => lookups[n].result = Ok(FALSE)


\* C22: get_platform_config returns an empty list, and never None, when the
\* named profile has no configs for the platform, when profile_name is None and
\* when no profile of the registry has that name.
C22_EmptyListForNoConfigs ==
    \A n \in DOMAIN lookups :
        (/\ lookups[n].op = "get_platform_config"
         /\ \/ lookups[n].profile_name = PyNone
            \/ \A i \in DOMAIN registry : PyStr(registry[i].name) # lookups[n].profile_name
            \/ \E i \in DOMAIN registry :
                  /\ PyStr(registry[i].name) = lookups[n].profile_name
                  /\ \/ lookups[n].platform \notin DOMAIN registry[i].platforms
                     \/ ~py_bool(registry[i].platforms[lookups[n].platform]))
            => lookups[n].result = Ok(PyList(<<>>))

\* the sensor config a lookup was made on
ConfigOf(l) == registry[l.profile].platforms["sensor"].v[l.config]

\* a step of a value config is configured when its setting is neither None nor
\* a value that is false (0, 0.0, {}), as _convert tests it
Configured(setting) == setting # PyNone /\ py_bool(setting)

StepSettings(cfg) == <<cfg.bit_mask, cfg.bit_offset, cfg.map, cfg.factor>>

\* the number a str of decimal digits or an int stands for
NumberOf(value) == IF value.t = "int" THEN value.v ELSE Decimal(value.v)
IsNumeric(value) == value.t = "int" \/ (IsStr(value) /\ IsDecimal(value.v))

\* step k of the reference pipeline on a value: 1 AND, 2 right shift, 3 map
\* lookup, 4 multiplication
ReferenceStep(cfg, k, value) ==
    IF k = 1 THEN PyStr(Digits(BitAnd(NumberOf(value), cfg.bit_mask.v)))
    ELSE IF k = 2 THEN PyStr(Digits(NumberOf(value) \div (2 ^ cfg.bit_offset.v)))
    ELSE IF k = 3 THEN (IF IsStr(value) /\ value.v \in DOMAIN cfg.map.v
                        THEN PyStr(cfg.map.v[value.v]) ELSE PyStr(S_undefined))
    ELSE PyStr(Digits(NumberOf(value) * cfg.factor.v) \o <<46, 48>>)

RECURSIVE ReferencePipeline(_, _, _)
\* steps k..4 on a value, each configured step applied, each other the
\* identity; <<>> when a numeric step meets a value that is no number
ReferencePipeline(cfg, k, value) ==
    IF k > 4 THEN <<value>>
    ELSE IF ~Configured(StepSettings(cfg)[k]) THEN ReferencePipeline(cfg, k + 1, value)
    ELSE IF k # 3 /\ ~IsNumeric(value) THEN <<>>
    ELSE ReferencePipeline(cfg, k + 1, ReferenceStep(cfg, k, value))

\* the values at the value path of the packet of a lookup
RawOf(l) == jsonpath_find(ConfigOf(l).state.value_path, l.event_data)

ReachingMap(cfg, raw) == _convert_bit_offset(cfg, _convert_bit_mask(cfg, Ok(raw)))

UnitOf(l) ==
    IF ConfigOf(l).state.unit_path = PyNone \/ l.event_data = PyNone THEN <<>>
    ELSE jsonpath_find(ConfigOf(l).state.unit_path.v, l.event_data)

MeetsNonNumeric(l) ==
    /\ l.op = "get_value"
    /\ RawOf(l) # <<>>
    /\ ReferencePipeline(ConfigOf(l).state, 1, RawOf(l)[1]) = <<>>

MaxCreated == 1 + MaxFailures + MaxNotifications

\* C27: a disconnect notification dispatches availability False and, unless
\* hass is stopping, creates a _connect_gateway task, without a
\* create_serial_connection call in between; when hass is stopping no task is
\* created.  Every task created leads to a create_serial_connection call,
\* unless hass stops first.
C27_NotificationReconnects ==
    /\ [][Len(disconnects') > Len(disconnects) =>
             /\ signals' = Append(signals, FALSE)
             /\ attempts' = attempts /\ pending' = pending
             /\ created' = IF hass_state = "stopping" THEN created ELSE created + 1]_vars
    /\ \A k \in 1..MaxCreated :
          (created >= k) ~> (attempts >= k \/ hass_state = "stopping")

\* the gateway connected, was notified of a disconnection while hass was
\* running, dispatched False and connected a second time
C27_Witness ==
    /\ Len(disconnects) = 1
    /\ hass_state = "running"
    /\ signals = <<TRUE, FALSE, TRUE>>
    /\ attempts = 2
    /\ client_protocol = 2

\* the availability signal dispatched last is True
AvailableSignalled == signals # <<>> /\ signals[Len(signals)]

\* C28: every connection attempt that fails (RfPlayerException or timeout)
\* dispatches availability False, schedules one reconnect job and raises
\* ConfigEntryNotReady; availability True is dispatched only in the step in which
\* connect() sets the client's protocol; and when the attempts stop failing the
\* gateway gets connected with availability True, unless hass stops first.
C28_RetryUntilConnected ==
    /\ [][(pending' < pending /\ Len(conns') = Len(conns)) =>
             /\ signals' = Append(signals, FALSE)
             /\ timers' = timers + 1
             /\ raised'.exc = "ConfigEntryNotReady"
             /\ raised'.cause \in {"RfPlayerException", "TimeoutError"}]_vars
    /\ [][(signals' # signals /\ signals'[Len(signals')]) =>
             /\ Len(conns') = Len(conns) + 1
             /\ client_protocol' = Len(conns')
             /\ pending' = pending - 1]_vars
    /\ <>(hass_state = "stopping" \/ (client_protocol # 0 /\ AvailableSignalled))

\* two attempts failed, each followed by its reconnect job, and the third
\* connected
C28_Witness ==
    /\ failures = 2
    /\ attempts = 3
    /\ signals = <<FALSE, FALSE, FALSE, FALSE, TRUE>>
    /\ client_protocol = 1
    /\ hass_state = "running"

\* C29: for every device id of the entry's devices map _remove_rf_device raises
\* nothing, and afterwards the map has lost that device and kept every other
\* entry as it was.
C29_RemoveCompletes ==
    [][\A id \in DOMAIN entry_devices :
          RemoveRfDevice(id) =>
              /\ raised' = NoExc
              /\ DOMAIN entry_devices' = DOMAIN entry_devices \ {id}
              /\ \A k \in DOMAIN entry_devices' : entry_devices'[k] = entry_devices[k]]_vars

\* the identity string of (the protocol of device d, its redirect address)
RedirectedFrom(devices, d) ==
    py_format(devices[d].protocol) \o <<45>> \o py_format(devices[d].redirect_address)

\* the redirect map has, for every device of `devices` with a redirect address,
\* the entry from the identity of (its protocol, that address) to the device
HoldsRedirects(redirect_address, devices) ==
    \A d \in DOMAIN devices :
        ("redirect_address" \in DOMAIN devices[d] /\ devices[d].redirect_address # PyNone) =>
            /\ RedirectedFrom(devices, d) \in DOMAIN redirect_address
            /\ redirect_address[RedirectedFrom(devices, d)] = d

ExplicitlyClosed(c) == conns[c].state = "closing" /\ conns[c].lost_exc = "None"

connected(cp) == cp # 0

\* C32: whenever connected is true the client's protocol has a transport, so
\* that send_raw_command does not raise the not-connected RfPlayerException:
\* also between the return of connect() and connection_made, and after a loss
\* of the connection
C32_ConnectedCanSend ==
    connected(client_protocol) => conns[client_protocol].transport

\* the connections whose transport is open and reads the serial line
OpenTransports == {c \in DOMAIN conns : conns[c].state = "open"}

\* C33: at most one transport opened through the client is open and delivering
\* events: a connect() issued while an earlier connection of the client is live
\* does not leave the earlier transport open
C33_OneOpenTransport == Cardinality(OpenTransports) <= 1

\* C40: the decode buffer belongs to one connection: what a connection holds in
\* its buffer and what it has delivered are those of a protocol that started
\* with an empty buffer and received the bytes of that connection only, so a
\* partial line an earlier connection of the client left behind is never put
\* before the data of the next one
C40_BufferOwnedByConnection ==
    \A c \in DOMAIN conns :
        \E fresh \in {data_received(PORT, <<>>, conns[c].received)} :
            /\ conns[c].buffer = fresh.buffer
            /\ conns[c].rawEvents = Flatten(fresh.log, "raw")

\* a connection ended with a partial line in its buffer, and the next
\* connection of the client has received data
C40_Witness ==
    \E c \in DOMAIN conns : \E d \in DOMAIN conns :
        /\ c < d
        /\ conns[c].state = "closed"
        /\ conns[c].buffer # <<>>
        /\ ~ HasNewline(conns[c].buffer)
        /\ client_protocol = d
        /\ conns[d].received = <<107, 10, 13>>
        /\ conns[d].rawEvents = <<>>

\* C39: after a data_received call that returns normally the decode buffer
\* holds no newline: every complete line was taken out of it
C39_NoNewlineLeft ==
    [][(conns'[1].received # conns[1].received /\ raised' = NoExc)
          => ~ HasNewline(conns'[1].buffer)]_vars

\* C34: every value of the redirect_address map of the config entry is a key
\* of its devices map, after any sequence of option updates, automatic
\* additions and removals of devices
C34_RedirectTargetsConfigured ==
    \A key \in DOMAIN entry_redirect : entry_redirect[key] \in DOMAIN entry_devices

\* C35: an event from an address that is configured as the redirect address of
\* an existing device adds no device entry for that address to the devices of
\* the config entry, whether automatic_add is enabled or not
C35_RedirectedEventAddsNoDevice ==
    [][\A event \in RedirectEvents :
          (/\ Len(handled') = Len(handled) + 1
           /\ handled'[Len(handled')].received = event
           /\ id_string(event.device) \in DOMAIN config.redirect_address
           /\ config.redirect_address[id_string(event.device)] \in DOMAIN entry_devices)
          => DOMAIN entry_devices' = DOMAIN entry_devices]_vars

\* C36: with automatic_add disabled an event of a device that is listed in the
\* devices of the config entry is dispatched; only events of devices that are
\* not configured are discarded
C36_ConfiguredDeviceDispatched ==
    \A i \in DOMAIN handled :
        (/\ ~ handled[i].config.automatic_add
         /\ device_id(handled[i].received.device) \in DOMAIN handled[i].config.devices)
        => handled[i].dispatched = <<handled[i].received>>

\* C37: for the platform, the builder is called at most once for a device id,
\* over the loading of the configured devices and the events dispatched, and
\* it was called for no device id outside the platform's device_ids
C37_EntitiesCreatedOnce ==
    /\ DOMAIN entities \subseteq platform_device_ids
    /\ \A id \in DOMAIN entities : entities[id] = 1

\* the configured device X2D-2 was loaded and an event of it was dispatched
\* later; an event of X2D-1 that has a platform config was dispatched too
C37_Witness ==
    /\ ID_X2D_2 \in DOMAIN config.devices
    /\ DOMAIN entities = {ID_X2D_1, ID_X2D_2}
    /\ Len(handled) = 2
    /\ handled[1].dispatched # <<>>
    /\ handled[2].dispatched # <<>>
    /\ \E i \in DOMAIN handled : device_id(handled[i].received.device) = ID_X2D_2
    /\ \E i \in DOMAIN handled : device_id(handled[i].received.device) = ID_X2D_1

\* C38: every status value that is a group command is taken by the switch and
\* by the binary sensor as an ON or an OFF command: all_on sets is_on to true,
\* all_off sets is_on to false, and neither is reported as unsupported
C38_GroupCommandsRecognised ==
    \A i \in DOMAIN applied :
        _group_event(applied[i].status) =>
            /\ applied[i].result
            /\ str_lower(applied[i].status.v) = S_all_on => applied[i].is_on = "True"
            /\ str_lower(applied[i].status.v) = S_all_off => applied[i].is_on = "False"

====
